---- MODULE Spec2Model ----
(***************************************************************************)
(* A model of the curlywas type checker (src/src/typecheck.rs).            *)
(*                                                                         *)
(* tc_script is modelled as a state machine: one step per iteration of     *)
(* each of its loops over the script, one step for leaving a loop and one  *)
(* for the final return.  tc_expression, tc_mem_location and tc_const are  *)
(* recursive operators over the expression tree.  The script is the input: *)
(* Init draws it from a bounded set of scripts.                            *)
(*                                                                         *)
(* Conventions.  Option<Type> is a type name or "None"; Option<u32> and    *)
(* Option<&Function> are <<>> (None) or <<n>> (Some(n)).  A HashMap is a   *)
(* function whose domain is the set of its keys.  A span is a sequence of  *)
(* naturals: <<1,i>> the i-th import, <<2,i>> the i-th global, <<3,i>> the *)
(* i-th function, <<3,i>> \o path an expression of its body (a child's     *)
(* span extends its parent's), <<4,i>> \o path a data segment's constant.  *)
(***************************************************************************)
EXTENDS Integers, Sequences, FiniteSets, TLC

(***************************************************************************)
(* Bounds of the input scripts.                                            *)
(***************************************************************************)
MaxImports == 2
MaxGlobals == 2
MaxFuncs == 2
MaxStmts == 2
MaxLets == 3

(***************************************************************************)
(* Types and the small value domains.                                      *)
(***************************************************************************)
Types == {"I32", "I64", "F32", "F64"}

None == "None"

TypeOrd(t) == CASE t = "I32" -> 0 [] t = "I64" -> 1 [] t = "F32" -> 2 [] t = "F64" -> 3

EmptyMap == [n \in {} |-> n]

MapInsert(m, k, v) == [n \in (DOMAIN m) \cup {k} |-> IF n = k THEN v ELSE m[n]]

SeqsUpTo(S, n) == UNION {[1..k -> S] : k \in 0..n}

NoExpr == [kind |-> "NoExpr"]

ImportSpan(i) == <<1, i>>
GlobalSpan(i) == <<2, i>>
FunctionSpan(i) == <<3, i>>
DataSpan(i) == <<4, i>>

(***************************************************************************)
(* Diagnostics.  Each report function of the checker prints one report and *)
(* returns Err(()): here it is the report it prints, which the caller      *)
(* appends to diags while it records or returns the error.  The labels of  *)
(* a report are kept as a set.                                             *)
(***************************************************************************)
DiagLabel(span, msg, type_, params) == [span |-> span, msg |-> msg, type_ |-> type_, params |-> params]

Diag(msg, span, labels) == [msg |-> msg, span |-> span, labels |-> labels]

\* A faulty variant of report_duplicate_definition: the label of the previous
\* definition is left out.
report_definition_only(msg, span, prev_span) ==
    Diag(msg, span, { DiagLabel(span, msg, None, <<>>) })

report_duplicate_definition(msg, span, prev_span) ==
    Diag(msg, span, { DiagLabel(span, msg, None, <<>>),
                      DiagLabel(prev_span, "Previous definition was here", None, <<>>) })

type_mismatch(type1, span1, type2, span2) ==
    Diag("Type mismatch", span2, { DiagLabel(span1, "Expected type", type1, <<>>),
                                   DiagLabel(span2, "but found type", type2, <<>>) })

SimpleDiag(msg, span) == Diag(msg, span, { DiagLabel(span, msg, None, <<>>) })

expected_type(span) == SimpleDiag("Expected value but found expression of type void", span)

unknown_variable(span) == SimpleDiag("Unknown variable", span)

immutable_assign(span) == SimpleDiag("Trying to assign to immutable variable", span)

missing_label(span) == SimpleDiag("Label not found", span)

type_missing(span) == SimpleDiag("Type missing", span)

unknown_function(span) == SimpleDiag("Unknown function", span)

expected_constant(span) == SimpleDiag("Expected constant value", span)

start_function_invalid(span) == SimpleDiag("Start function can't have params or a return value", span)

DupMsgs == {"Global already defined", "Function already defined",
            "Variable already defined", "Start function already defined"}

(***************************************************************************)
(* ast::Locals, the per-function arena.  params and locals are two         *)
(* sequences; an id counts through params first, then locals.              *)
(***************************************************************************)
Local(span, name, type_, index) == [span |-> span, name |-> name, type_ |-> type_, index |-> index]

DefaultLocals == [params |-> <<>>, locals |-> <<>>]

LocalAt(locals, id) ==
    IF id < Len(locals.params) THEN locals.params[id + 1]
    ELSE locals.locals[id - Len(locals.params) + 1]

add_param(locals, span, name, type_) ==
    [id |-> Len(locals.params),
     locals |-> [locals EXCEPT !.params = Append(@, Local(span, name, type_, <<Len(locals.params)>>))]]

add_local(locals, span, name, type_, store) ==
    [id |-> Len(locals.params) + Len(locals.locals),
     locals |-> [locals EXCEPT !.locals =
                    Append(@, Local(span, name, type_, IF store THEN <<0>> ELSE <<>>))]]

(***************************************************************************)
(* LocalVars, the scope stack: a sequence of maps from names to ids, the   *)
(* innermost scope last.                                                   *)
(***************************************************************************)
\* A faulty variant of LocalVarsGet: the scopes are searched from the
\* outermost inwards.
RECURSIVE LocalVarsGetOutermost(_, _)
LocalVarsGetOutermost(local_vars, name) ==
    IF local_vars = <<>> THEN <<>>
    ELSE IF name \in DOMAIN Head(local_vars) THEN <<Head(local_vars)[name]>>
    ELSE LocalVarsGetOutermost(Tail(local_vars), name)

RECURSIVE LocalVarsGet(_, _)
LocalVarsGet(local_vars, name) ==
    IF local_vars = <<>> THEN <<>>
    ELSE LET scope == local_vars[Len(local_vars)] IN
         IF name \in DOMAIN scope THEN <<scope[name]>>
         ELSE LocalVarsGet(SubSeq(local_vars, 1, Len(local_vars) - 1), name)

get_in_current(local_vars, name) ==
    LET scope == local_vars[Len(local_vars)] IN
    IF name \in DOMAIN scope THEN <<scope[name]>> ELSE <<>>

\* A faulty variant of push_scope: two scopes are pushed.
push_scope_twice(local_vars) == local_vars \o <<EmptyMap, EmptyMap>>

push_scope(local_vars) == Append(local_vars, EmptyMap)

\* A faulty variant of pop_scope: the scope stays on the stack.
pop_scope_kept(local_vars) == local_vars

pop_scope(local_vars) == SubSeq(local_vars, 1, Len(local_vars) - 1)

LocalVarsInsert(local_vars, name, id) ==
    [local_vars EXCEPT ![Len(local_vars)] = MapInsert(@, name, id)]

(***************************************************************************)
(* The intrinsics table: find_types(name) gives the overloads of a         *)
(* built-in, a map from parameter-type vectors to return types, or None    *)
(* (here the empty map) when the name is no built-in.                      *)
(***************************************************************************)
IntrinsicNames == {"sqrt", "min"}

find_types(name) ==
    CASE name = "sqrt" -> [ps \in {<<"F32">>, <<"F64">>} |-> ps[1]]
      [] name = "min" -> [ps \in {<<"F32", "F32">>} |-> "F32"]
      [] OTHER -> EmptyMap

(***************************************************************************)
(* tc_const: the type of a literal constant, or the expected-constant      *)
(* error.                                                                  *)
(***************************************************************************)
TcOk(ctx, type_) == [ok |-> TRUE, type_ |-> type_, ctx |-> ctx, diags |-> <<>>]

TcErr(ctx, diag) == [ok |-> FALSE, type_ |-> None, ctx |-> ctx, diags |-> <<diag>>]

ConstKinds == {"I32Const", "I64Const", "F32Const", "F64Const"}

ConstType(kind) ==
    CASE kind = "I32Const" -> "I32" [] kind = "I64Const" -> "I64"
      [] kind = "F32Const" -> "F32" [] kind = "F64Const" -> "F64"

\* A faulty variant of tc_const: a node that is no literal is taken as an
\* i32 constant.
tc_const_of_any(ctx, expr, span) ==
    TcOk(ctx, IF expr.kind \in ConstKinds THEN ConstType(expr.kind) ELSE "I32")

tc_const(ctx, expr, span) ==
    IF expr.kind \in ConstKinds THEN TcOk(ctx, ConstType(expr.kind))
    ELSE TcErr(ctx, expected_constant(span))

(***************************************************************************)
(* The operand classes of the binary operators.                            *)
(***************************************************************************)
ArithOps == {"Add", "Sub", "Mul", "Div"}
IntOps == {"Rem", "And", "Or", "Xor", "Shl", "ShrU", "ShrS", "DivU", "RemU"}
CmpOps == {"Eq", "Ne", "Lt", "Le", "Gt", "Ge"}
UnsignedCmpOps == {"LtU", "LeU", "GtU", "GeU"}

(***************************************************************************)
(* The call's candidate signatures: the registered function of that name   *)
(* alone, or else the intrinsic's overloads; the empty map when neither.   *)
(***************************************************************************)
\* A faulty variant of TypeMap: the intrinsics are asked first, the function
\* table only for a name that is no intrinsic.
TypeMapIntrinsicsFirst(ctx, name) ==
    IF find_types(name) # EmptyMap THEN find_types(name)
    ELSE IF name \in DOMAIN ctx.functions
    THEN [ps \in {ctx.functions[name].params} |-> ctx.functions[name].type_]
    ELSE EmptyMap

TypeMap(ctx, name) ==
    IF name \in DOMAIN ctx.functions
    THEN [ps \in {ctx.functions[name].params} |-> ctx.functions[name].type_]
    ELSE find_types(name)

\* A faulty variant of the no-matching-function report: it lists one
\* candidate only.
no_matching_function_first(span, type_map) ==
    LET ps == CHOOSE qs \in DOMAIN type_map : TRUE IN
    Diag("No matching function found", span, { DiagLabel(span, "Found", type_map[ps], ps) })

no_matching_function(span, type_map) ==
    Diag("No matching function found", span,
         { DiagLabel(span, "Found", type_map[ps], ps) : ps \in DOMAIN type_map })

(***************************************************************************)
(* The Let rule's local: the record already bound to the name in the       *)
(* current scope when it has the same type and storage mode, a new record  *)
(* otherwise.                                                              *)
(***************************************************************************)
\* A faulty variant of LetLocal: every let appends a new record.
LetLocalAlwaysNew(ctx, span, name, type_, store) ==
    add_local(ctx.locals, span, name, type_, store)

LetLocal(ctx, span, name, type_, store) ==
    LET cur == get_in_current(ctx.local_vars, name)
        reuse == /\ cur # <<>>
                 /\ LocalAt(ctx.locals, cur[1]).type_ = type_
                 /\ store = (LocalAt(ctx.locals, cur[1]).index # <<>>)
    IN IF reuse THEN [id |-> cur[1], locals |-> ctx.locals]
       ELSE add_local(ctx.locals, span, name, type_, store)

block_stack_push(ctx, label) == [ctx EXCEPT !.block_stack = Append(@, label)]

\* A faulty variant of the pop: the label stays on the stack.
block_stack_kept(ctx) == ctx

block_stack_pop(ctx) == [ctx EXCEPT !.block_stack = SubSeq(@, 1, Len(@) - 1)]

block_stack_contains(ctx, label) == \E k \in 1..Len(ctx.block_stack) : ctx.block_stack[k] = label

(***************************************************************************)
(* tc_expression.  The result is [ok, type_, ctx, diags]: ok is FALSE when *)
(* the call returns Err(()), diags then holds the one report it printed    *)
(* and ctx is the context as the early return left it; type_ is the type   *)
(* the node is annotated with.  span is the span of expr.                  *)
(*                                                                         *)
(* ctx is the Context together with the annotations the checker writes     *)
(* into the tree in place: types maps the span of a node to its type_ (set *)
(* when the node's check succeeds), local_ids the span of a Let, Variable, *)
(* Assign or LocalTee node to its local_id.                                *)
(***************************************************************************)
SetLocalId(ctx, span, id) == [ctx EXCEPT !.local_ids = MapInsert(@, span, id)]

SetType(ctx, span, type_) == [ctx EXCEPT !.types = MapInsert(@, span, type_)]

Annotate(r, span) ==
    IF r.ok THEN [r EXCEPT !.ctx = SetType(@, span, r.type_)] ELSE r

RECURSIVE tc_expression(_, _, _)
RECURSIVE TcStatements(_, _, _, _)
RECURSIVE TcParams(_, _, _, _, _)

\* `for stmt in statements { tc_expression(context, stmt)?; }`, from the k-th on.
TcStatements(ctx, statements, k, span) ==
    IF k > Len(statements) THEN TcOk(ctx, None)
    ELSE LET r == tc_expression(ctx, statements[k], Append(span, k)) IN
         IF ~r.ok THEN r ELSE TcStatements(r.ctx, statements, k + 1, span)

\* The FuncCall rule's loop over the arguments, from the k-th on; types
\* collects the argument types.
TcParams(ctx, params, k, span, types) ==
    IF k > Len(params) THEN [ok |-> TRUE, types |-> types, ctx |-> ctx, diags |-> <<>>]
    ELSE LET r == tc_expression(ctx, params[k], Append(span, k)) IN
         IF ~r.ok THEN [ok |-> FALSE, types |-> types, ctx |-> r.ctx, diags |-> r.diags]
         ELSE IF r.type_ = None
         THEN [ok |-> FALSE, types |-> types, ctx |-> r.ctx,
               diags |-> <<expected_type(Append(span, k))>>]
         ELSE TcParams(r.ctx, params, k + 1, span, Append(types, r.type_))

tc_mem_location(ctx, mem_location, span) ==
    LET l == tc_expression(ctx, mem_location.left, Append(span, 1)) IN
    IF ~l.ok THEN l
    ELSE LET r == tc_const(l.ctx, mem_location.right, Append(span, 2)) IN
         IF ~r.ok THEN r
         ELSE IF l.type_ # "I32"
         THEN TcErr(l.ctx, type_mismatch("I32", Append(span, 1), l.type_, Append(span, 1)))
         ELSE IF r.type_ # "I32"
         THEN TcErr(l.ctx, type_mismatch("I32", Append(span, 2), r.type_, Append(span, 2)))
         ELSE TcOk(l.ctx, None)

TcBlock(ctx, expr, span) ==
    LET s == TcStatements([ctx EXCEPT !.local_vars = push_scope(@)], expr.statements, 1, span) IN
    IF ~s.ok THEN s
    ELSE LET f == IF expr.final_expression.kind # "NoExpr"
                  THEN tc_expression(s.ctx, expr.final_expression,
                                     Append(span, Len(expr.statements) + 1))
                  ELSE TcOk(s.ctx, None)
         IN IF ~f.ok THEN f
            ELSE TcOk([f.ctx EXCEPT !.local_vars = pop_scope(@)], f.type_)

TcLetBind(ctx, expr, span, type_) ==
    IF type_ # None
    THEN LET l == LetLocal(ctx, span, expr.name, type_, expr.let_type # "Inline") IN
         TcOk([SetLocalId(ctx, span, l.id) EXCEPT
                    !.locals = l.locals,
                    !.local_vars = LocalVarsInsert(@, expr.name, l.id)], None)
    ELSE TcErr(ctx, type_missing(span))

\* A faulty variant of TcLet: a declared type is not compared with the
\* initializer's type.
TcLetDeclaredWins(ctx, expr, span) ==
    IF expr.value.kind # "NoExpr"
    THEN LET v == tc_expression(ctx, expr.value, Append(span, 1)) IN
         IF ~v.ok THEN v
         ELSE IF expr.type_ # None THEN TcLetBind(v.ctx, expr, span, expr.type_)
         ELSE IF v.type_ = None
         THEN TcErr(v.ctx, expected_type(Append(span, 1)))
         ELSE TcLetBind(v.ctx, expr, span, v.type_)
    ELSE TcLetBind(ctx, expr, span, expr.type_)

\* The Let rule.  The type the rule writes into a let that declares none
\* is the type_ handed to TcLetBind.
TcLet(ctx, expr, span) ==
    IF expr.value.kind # "NoExpr"
    THEN LET v == tc_expression(ctx, expr.value, Append(span, 1)) IN
         IF ~v.ok THEN v
         ELSE IF expr.type_ # None
         THEN IF expr.type_ # v.type_
              THEN TcErr(v.ctx, type_mismatch(expr.type_, span, v.type_, Append(span, 1)))
              ELSE TcLetBind(v.ctx, expr, span, expr.type_)
         ELSE IF v.type_ = None
         THEN TcErr(v.ctx, expected_type(Append(span, 1)))
         ELSE TcLetBind(v.ctx, expr, span, v.type_)
    ELSE TcLetBind(ctx, expr, span, expr.type_)

TcPoke(ctx, expr, span) ==
    LET m == tc_mem_location(ctx, expr.mem_location, span) IN
    IF ~m.ok THEN m
    ELSE LET v == tc_expression(m.ctx, expr.value, Append(span, 3)) IN
         IF ~v.ok THEN v
         ELSE IF v.type_ # "I32"
         THEN TcErr(v.ctx, type_mismatch("I32", span, v.type_, Append(span, 3)))
         ELSE TcOk(v.ctx, None)

TcUnaryOp(ctx, expr, span) ==
    LET v == tc_expression(ctx, expr.value, Append(span, 1)) IN
    IF ~v.ok THEN v
    ELSE IF v.type_ = None THEN TcErr(v.ctx, expected_type(Append(span, 1)))
    ELSE IF expr.op = "Negate" THEN TcOk(v.ctx, v.type_)
    ELSE IF v.type_ \in {"I32", "I64"} THEN TcOk(v.ctx, "I32")
    ELSE TcErr(v.ctx, type_mismatch("I32", span, v.type_, Append(span, 1)))

\* A faulty variant of BinOpType: the unsigned comparisons take operands of
\* any type, as the other comparisons do.
BinOpTypeAnyCompare(ctx, op, left_type, left_span) ==
    IF op \in ArithOps THEN TcOk(ctx, left_type)
    ELSE IF op \in IntOps
    THEN IF left_type # "I32" /\ left_type # "I64"
         THEN TcErr(ctx, type_mismatch("I32", left_span, left_type, left_span))
         ELSE TcOk(ctx, left_type)
    ELSE TcOk(ctx, "I32")

BinOpType(ctx, op, left_type, left_span) ==
    IF op \in ArithOps THEN TcOk(ctx, left_type)
    ELSE IF op \in IntOps
    THEN IF left_type # "I32" /\ left_type # "I64"
         THEN TcErr(ctx, type_mismatch("I32", left_span, left_type, left_span))
         ELSE TcOk(ctx, left_type)
    ELSE IF op \in CmpOps THEN TcOk(ctx, "I32")
    ELSE IF left_type # "I32" /\ left_type # "I64"
         THEN TcErr(ctx, type_mismatch("I32", left_span, left_type, left_span))
         ELSE TcOk(ctx, "I32")

TcBinOp(ctx, expr, span) ==
    LET l == tc_expression(ctx, expr.left, Append(span, 1)) IN
    IF ~l.ok THEN l
    ELSE LET r == tc_expression(l.ctx, expr.right, Append(span, 2)) IN
         IF ~r.ok THEN r
         ELSE IF l.type_ = None THEN TcErr(r.ctx, expected_type(Append(span, 1)))
         ELSE IF l.type_ # r.type_
         THEN TcErr(r.ctx, type_mismatch(l.type_, Append(span, 1), r.type_, Append(span, 2)))
         ELSE BinOpType(r.ctx, expr.op, l.type_, Append(span, 1))

TcVariable(ctx, expr, span) ==
    LET id == LocalVarsGet(ctx.local_vars, expr.name) IN
    IF id # <<>> THEN TcOk(SetLocalId(ctx, span, id[1]), LocalAt(ctx.locals, id[1]).type_)
    ELSE IF expr.name \in DOMAIN ctx.global_vars
    THEN TcOk(ctx, ctx.global_vars[expr.name].type_)
    ELSE TcErr(ctx, unknown_variable(span))

\* A faulty variant of AssignTarget: a local is a target whether it has a
\* slot or not.
AssignTargetAnyLocal(ctx, name, span) ==
    LET id == LocalVarsGet(ctx.local_vars, name) IN
    IF id # <<>>
    THEN [ok |-> TRUE, type_ |-> LocalAt(ctx.locals, id[1]).type_,
          span |-> LocalAt(ctx.locals, id[1]).span]
    ELSE IF name \in DOMAIN ctx.global_vars
    THEN IF ~ctx.global_vars[name].mutable
         THEN [ok |-> FALSE, diag |-> immutable_assign(span)]
         ELSE [ok |-> TRUE, type_ |-> ctx.global_vars[name].type_,
               span |-> ctx.global_vars[name].span]
    ELSE [ok |-> FALSE, diag |-> unknown_variable(span)]

\* The target of an assignment: [ok, type_, span] or the error report.
\* A faulty variant of AssignTarget: a mutable global of the name is the
\* target even when a local has the name.
AssignTargetGlobalFirst(ctx, name, span) ==
    LET id == LocalVarsGet(ctx.local_vars, name) IN
    IF name \in DOMAIN ctx.global_vars /\ ctx.global_vars[name].mutable
    THEN [ok |-> TRUE, type_ |-> ctx.global_vars[name].type_,
          span |-> ctx.global_vars[name].span]
    ELSE IF id # <<>>
    THEN LET local == LocalAt(ctx.locals, id[1]) IN
         IF local.index = <<>>
         THEN [ok |-> FALSE, diag |-> immutable_assign(span)]
         ELSE [ok |-> TRUE, type_ |-> local.type_, span |-> local.span]
    ELSE IF name \in DOMAIN ctx.global_vars
    THEN [ok |-> FALSE, diag |-> immutable_assign(span)]
    ELSE [ok |-> FALSE, diag |-> unknown_variable(span)]

AssignTarget(ctx, name, span) ==
    LET id == LocalVarsGet(ctx.local_vars, name) IN
    IF id # <<>>
    THEN LET local == LocalAt(ctx.locals, id[1]) IN
         IF local.index = <<>>
         THEN [ok |-> FALSE, diag |-> immutable_assign(span)]
         ELSE [ok |-> TRUE, type_ |-> local.type_, span |-> local.span]
    ELSE IF name \in DOMAIN ctx.global_vars
    THEN IF ~ctx.global_vars[name].mutable
         THEN [ok |-> FALSE, diag |-> immutable_assign(span)]
         ELSE [ok |-> TRUE, type_ |-> ctx.global_vars[name].type_,
               span |-> ctx.global_vars[name].span]
    ELSE [ok |-> FALSE, diag |-> unknown_variable(span)]

TcAssign(ctx, expr, span) ==
    LET v == tc_expression(ctx, expr.value, Append(span, 1)) IN
    IF ~v.ok THEN v
    ELSE LET t == AssignTarget(v.ctx, expr.name, span)
             id == LocalVarsGet(v.ctx.local_vars, expr.name)
             c == IF id # <<>> THEN SetLocalId(v.ctx, span, id[1]) ELSE v.ctx
         IN IF ~t.ok THEN TcErr(c, t.diag)
            ELSE IF v.type_ # t.type_
            THEN TcErr(c, type_mismatch(t.type_, t.span, v.type_, Append(span, 1)))
            ELSE TcOk(c, None)

\* A faulty variant of TcLocalTee: a name that no scope binds is looked up
\* in the global table, as the Assign rule does.
TcLocalTeeOrGlobal(ctx, expr, span) ==
    LET v == tc_expression(ctx, expr.value, Append(span, 1)) IN
    IF ~v.ok THEN v
    ELSE LET t == AssignTarget(v.ctx, expr.name, span)
             id == LocalVarsGet(v.ctx.local_vars, expr.name)
             c == IF id # <<>> THEN SetLocalId(v.ctx, span, id[1]) ELSE v.ctx
         IN IF ~t.ok THEN TcErr(c, t.diag)
            ELSE IF v.type_ # t.type_
            THEN TcErr(c, type_mismatch(t.type_, t.span, v.type_, Append(span, 1)))
            ELSE TcOk(c, t.type_)

TcLocalTee(ctx, expr, span) ==
    LET v == tc_expression(ctx, expr.value, Append(span, 1)) IN
    IF ~v.ok THEN v
    ELSE LET id == LocalVarsGet(v.ctx.local_vars, expr.name) IN
         IF id = <<>> THEN TcErr(v.ctx, unknown_variable(span))
         ELSE LET local == LocalAt(v.ctx.locals, id[1])
                  c == SetLocalId(v.ctx, span, id[1])
              IN IF local.index = <<>> THEN TcErr(c, immutable_assign(span))
                 ELSE IF v.type_ # local.type_
                 THEN TcErr(c, type_mismatch(local.type_, local.span, v.type_, Append(span, 1)))
                 ELSE TcOk(c, local.type_)

TcLoop(ctx, expr, span) ==
    LET b == tc_expression(block_stack_push(ctx, expr.label), expr.block, Append(span, 1)) IN
    IF ~b.ok THEN b ELSE TcOk(block_stack_pop(b.ctx), b.type_)

TcLabelBlock(ctx, expr, span) ==
    LET b == tc_expression(block_stack_push(ctx, expr.label), expr.block, Append(span, 1)) IN
    IF ~b.ok THEN b
    ELSE IF b.type_ # None
    THEN TcErr(block_stack_pop(b.ctx), type_mismatch(None, span, b.type_, Append(span, 1)))
    ELSE TcOk(block_stack_pop(b.ctx), None)

TcBranch(ctx, expr, span) ==
    IF ~block_stack_contains(ctx, expr.label) THEN TcErr(ctx, missing_label(span))
    ELSE TcOk(ctx, None)

TcBranchIf(ctx, expr, span) ==
    LET c == tc_expression(ctx, expr.condition, Append(span, 1)) IN
    IF ~c.ok THEN c
    ELSE IF c.type_ # "I32"
    THEN TcErr(c.ctx, type_mismatch("I32", span, c.type_, Append(span, 1)))
    ELSE IF ~block_stack_contains(c.ctx, expr.label) THEN TcErr(c.ctx, missing_label(span))
    ELSE TcOk(c.ctx, None)

TcCast(ctx, expr, span) ==
    LET v == tc_expression(ctx, expr.value, Append(span, 1)) IN
    IF ~v.ok THEN v
    ELSE IF v.type_ = None THEN TcErr(v.ctx, expected_type(span))
    ELSE TcOk(v.ctx, expr.type_)

TcFuncCall(ctx, expr, span) ==
    LET p == TcParams(ctx, expr.params, 1, span, <<>>) IN
    IF ~p.ok THEN [ok |-> FALSE, type_ |-> None, ctx |-> p.ctx, diags |-> p.diags]
    ELSE IF expr.name \in DOMAIN p.ctx.functions \/ expr.name \in IntrinsicNames
    THEN LET type_map == TypeMap(p.ctx, expr.name) IN
         IF p.types \in DOMAIN type_map THEN TcOk(p.ctx, type_map[p.types])
         ELSE TcErr(p.ctx, no_matching_function(span, type_map))
    ELSE TcErr(p.ctx, unknown_function(span))

TcSelect(ctx, expr, span) ==
    LET c == tc_expression(ctx, expr.condition, Append(span, 1)) IN
    IF ~c.ok THEN c
    ELSE LET t == tc_expression(c.ctx, expr.if_true, Append(span, 2)) IN
         IF ~t.ok THEN t
         ELSE LET f == tc_expression(t.ctx, expr.if_false, Append(span, 3)) IN
              IF ~f.ok THEN f
              ELSE IF c.type_ # "I32"
              THEN TcErr(f.ctx, type_mismatch("I32", Append(span, 1), c.type_, Append(span, 1)))
              ELSE IF t.type_ = None THEN TcErr(f.ctx, expected_type(Append(span, 2)))
              ELSE IF t.type_ # f.type_
              THEN TcErr(f.ctx, type_mismatch(t.type_, Append(span, 2), f.type_, Append(span, 3)))
              ELSE TcOk(f.ctx, t.type_)

\* A faulty variant of TcIf: without an else branch the node takes the
\* then-branch's type.
TcIfThenTyped(ctx, expr, span) ==
    LET c == tc_expression(ctx, expr.condition, Append(span, 1)) IN
    IF ~c.ok THEN c
    ELSE LET t == tc_expression(c.ctx, expr.if_true, Append(span, 2)) IN
         IF ~t.ok THEN t
         ELSE IF expr.if_false.kind # "NoExpr"
         THEN LET f == tc_expression(t.ctx, expr.if_false, Append(span, 3)) IN
              IF ~f.ok THEN f
              ELSE IF t.type_ # f.type_
              THEN TcErr(f.ctx, type_mismatch(t.type_, Append(span, 2), f.type_, Append(span, 3)))
              ELSE TcOk(f.ctx, t.type_)
         ELSE TcOk(t.ctx, t.type_)

\* A faulty variant of TcIf: the condition has to be an i32, as in select.
TcIfI32Condition(ctx, expr, span) ==
    LET c == tc_expression(ctx, expr.condition, Append(span, 1)) IN
    IF ~c.ok THEN c
    ELSE LET t == tc_expression(c.ctx, expr.if_true, Append(span, 2)) IN
         IF ~t.ok THEN t
         ELSE IF expr.if_false.kind # "NoExpr"
         THEN LET f == tc_expression(t.ctx, expr.if_false, Append(span, 3)) IN
              IF ~f.ok THEN f
              ELSE IF c.type_ # "I32"
              THEN TcErr(f.ctx, type_mismatch("I32", Append(span, 1), c.type_, Append(span, 1)))
              ELSE IF t.type_ # f.type_
              THEN TcErr(f.ctx, type_mismatch(t.type_, Append(span, 2), f.type_, Append(span, 3)))
              ELSE TcOk(f.ctx, t.type_)
         ELSE IF c.type_ # "I32"
         THEN TcErr(t.ctx, type_mismatch("I32", Append(span, 1), c.type_, Append(span, 1)))
         ELSE TcOk(t.ctx, None)

TcIf(ctx, expr, span) ==
    LET c == tc_expression(ctx, expr.condition, Append(span, 1)) IN
    IF ~c.ok THEN c
    ELSE LET t == tc_expression(c.ctx, expr.if_true, Append(span, 2)) IN
         IF ~t.ok THEN t
         ELSE IF expr.if_false.kind # "NoExpr"
         THEN LET f == tc_expression(t.ctx, expr.if_false, Append(span, 3)) IN
              IF ~f.ok THEN f
              ELSE IF t.type_ # f.type_
              THEN TcErr(f.ctx, type_mismatch(t.type_, Append(span, 2), f.type_, Append(span, 3)))
              ELSE TcOk(f.ctx, t.type_)
         ELSE TcOk(t.ctx, None)

TcReturn(ctx, expr, span) ==
    IF expr.value.kind # "NoExpr"
    THEN LET v == tc_expression(ctx, expr.value, Append(span, 1)) IN
         IF ~v.ok THEN v
         ELSE IF v.type_ # v.ctx.return_type
         THEN TcErr(v.ctx, type_mismatch(v.ctx.return_type, span, v.type_, Append(span, 1)))
         ELSE TcOk(v.ctx, None)
    ELSE TcOk(ctx, None)

TcFirst(ctx, expr, span) ==
    LET v == tc_expression(ctx, expr.value, Append(span, 1)) IN
    IF ~v.ok THEN v
    ELSE LET d == tc_expression(v.ctx, expr.drop, Append(span, 2)) IN
         IF ~d.ok THEN d ELSE TcOk(d.ctx, v.type_)

TcPeek(ctx, expr, span) ==
    LET m == tc_mem_location(ctx, expr.mem_location, span) IN
    IF ~m.ok THEN m ELSE TcOk(m.ctx, "I32")

TcRule(ctx, expr, span) ==
    CASE expr.kind = "Block" -> TcBlock(ctx, expr, span)
      [] expr.kind = "Let" -> TcLet(ctx, expr, span)
      [] expr.kind = "Peek" -> TcPeek(ctx, expr, span)
      [] expr.kind = "Poke" -> TcPoke(ctx, expr, span)
      [] expr.kind \in ConstKinds -> TcOk(ctx, ConstType(expr.kind))
      [] expr.kind = "UnaryOp" -> TcUnaryOp(ctx, expr, span)
      [] expr.kind = "BinOp" -> TcBinOp(ctx, expr, span)
      [] expr.kind = "Variable" -> TcVariable(ctx, expr, span)
      [] expr.kind = "Assign" -> TcAssign(ctx, expr, span)
      [] expr.kind = "LocalTee" -> TcLocalTee(ctx, expr, span)
      [] expr.kind = "Loop" -> TcLoop(ctx, expr, span)
      [] expr.kind = "LabelBlock" -> TcLabelBlock(ctx, expr, span)
      [] expr.kind = "Branch" -> TcBranch(ctx, expr, span)
      [] expr.kind = "BranchIf" -> TcBranchIf(ctx, expr, span)
      [] expr.kind = "Cast" -> TcCast(ctx, expr, span)
      [] expr.kind = "FuncCall" -> TcFuncCall(ctx, expr, span)
      [] expr.kind = "Select" -> TcSelect(ctx, expr, span)
      [] expr.kind = "If" -> TcIf(ctx, expr, span)
      [] expr.kind = "Return" -> TcReturn(ctx, expr, span)
      [] expr.kind = "First" -> TcFirst(ctx, expr, span)

\* `expr.type_ = match expr.expr { ... }; Ok(())`
tc_expression(ctx, expr, span) == Annotate(TcRule(ctx, expr, span), span)

(***************************************************************************)
(* The steps of tc_script.  A step works on st = [context, result, diags,  *)
(* returned]: the Context, the local `result`, the reports printed so far  *)
(* and the value tc_script has returned ("Pending" while it runs).         *)
(***************************************************************************)
Var(span, type_, mutable) == [span |-> span, type_ |-> type_, mutable |-> mutable]

FunctionType(span, params, type_) == [span |-> span, params |-> params, type_ |-> type_]

\* A faulty variant of Record: the report is printed and result is left as it was.
RecordIgnored(st, diag) == [st EXCEPT !.diags = Append(@, diag)]

\* `result = report(...)`: the report is printed and result becomes Err(()).
Record(st, diag) == [st EXCEPT !.diags = Append(@, diag), !.result = "Err"]

\* `tc(...)?` on a failed check: its reports are printed and tc_script returns Err(()).
\* A faulty variant of Abort: the failure is recorded in result and the
\* run goes on.
AbortRecorded(st, diags_) == [st EXCEPT !.diags = @ \o diags_, !.result = "Err"]

Abort(st, diags_) == [st EXCEPT !.diags = @ \o diags_, !.returned = "Err"]

\* One iteration of the loop over script.imports.
ImportStep(st, import, span) ==
    CASE import.kind = "Variable" ->
            IF import.name \in DOMAIN st.context.global_vars
            THEN Record(st, report_duplicate_definition("Global already defined", span,
                                st.context.global_vars[import.name].span))
            ELSE [st EXCEPT !.context.global_vars =
                        MapInsert(@, import.name, Var(span, import.type_, import.mutable))]
      [] import.kind = "Function" ->
            IF import.name \in DOMAIN st.context.functions
            THEN Record(st, report_duplicate_definition("Function already defined", span,
                                st.context.functions[import.name].span))
            ELSE [st EXCEPT !.context.functions =
                        MapInsert(@, import.name, FunctionType(span, import.params, import.type_))]
      [] import.kind = "Memory" -> st

\* One iteration of the loop over script.global_vars: the state and the
\* declaration as the iteration leaves them.
GlobalStep(st, v, span) ==
    IF v.name \in DOMAIN st.context.global_vars
    THEN [st |-> Record(st, report_duplicate_definition("Global already defined", span,
                                st.context.global_vars[v.name].span)),
          v |-> v]
    ELSE LET c == tc_const(st.context, v.value, Append(span, 1)) IN
         IF ~c.ok THEN [st |-> Abort(st, c.diags), v |-> v]
         ELSE LET mismatch == v.type_ # c.type_ /\ v.type_ # None
                  type_ == IF v.type_ # c.type_ /\ v.type_ = None THEN c.type_ ELSE v.type_
                  st1 == IF mismatch
                         THEN Record(st, type_mismatch(v.type_, span, c.type_, Append(span, 1)))
                         ELSE st
              IN [st |-> [st1 EXCEPT !.context.global_vars =
                                MapInsert(@, v.name, Var(span, type_, v.mutable))],
                  v |-> [v EXCEPT !.type_ = type_]]

ParamTypes(params) == [k \in 1..Len(params) |-> params[k].type_]

\* A faulty variant of SignatureStep: a duplicate is reported and the table
\* entry is overwritten.
SignatureStepOverwriting(st, f, span) ==
    LET st1 == IF f.name \in DOMAIN st.context.functions
               THEN Record(st, report_duplicate_definition("Function already defined", span,
                                   st.context.functions[f.name].span))
               ELSE st
    IN [st1 EXCEPT !.context.functions =
            MapInsert(@, f.name, FunctionType(span, [k \in 1..Len(f.params) |-> f.params[k].type_],
                                              f.type_))]

\* One iteration of the loop that registers the functions' signatures.
SignatureStep(st, f, span) ==
    IF f.name \in DOMAIN st.context.functions
    THEN Record(st, report_duplicate_definition("Function already defined", span,
                        st.context.functions[f.name].span))
    ELSE [st EXCEPT !.context.functions =
                MapInsert(@, f.name, FunctionType(span, ParamTypes(f.params), f.type_))]

\* The span of the binding that makes a parameter name a duplicate: <<>> or <<span>>.
ParamClash(context, name) ==
    LET id == LocalVarsGet(context.local_vars, name) IN
    IF id # <<>> THEN <<LocalAt(context.locals, id[1]).span>>
    ELSE IF name \in DOMAIN context.global_vars THEN <<context.global_vars[name].span>>
    ELSE <<>>

\* The loop over f.params, from the k-th on.
RECURSIVE BindParams(_, _, _, _)
BindParams(st, params, k, span) ==
    IF k > Len(params) THEN st
    ELSE LET clash == ParamClash(st.context, params[k].name)
             p == add_param(st.context.locals, span, params[k].name, params[k].type_)
         IN BindParams(
                IF clash # <<>>
                THEN Record(st, report_duplicate_definition("Variable already defined", span, clash[1]))
                ELSE [st EXCEPT !.context.locals = p.locals,
                                !.context.local_vars = LocalVarsInsert(@, params[k].name, p.id)],
                params, k + 1, span)

\* A faulty variant of SortByType: the pairs stay in arena order.
SortByTypeSkipped(mapping) == mapping

\* A stable sort of (type, index) pairs by type: insertion of each pair
\* behind the pairs sorted so far whose type is not greater.
RECURSIVE SortByType(_)
SortByType(mapping) ==
    IF mapping = <<>> THEN <<>>
    ELSE LET init == SortByType(SubSeq(mapping, 1, Len(mapping) - 1))
             last == mapping[Len(mapping)]
             n == Cardinality({k \in 1..Len(init) : TypeOrd(init[k][1]) <= TypeOrd(last[1])})
         IN SubSeq(init, 1, n) \o <<last>> \o SubSeq(init, n + 1, Len(init))

\* The (type, index) pairs of the locals that have a slot, in arena order.
RECURSIVE LocalMapping(_, _)
LocalMapping(locals_, k) ==
    IF k > Len(locals_) THEN <<>>
    ELSE (IF locals_[k].index # <<>> THEN << <<locals_[k].type_, k>> >> ELSE <<>>)
         \o LocalMapping(locals_, k + 1)

\* A faulty variant of LocalsStart: the slots start at the number of locals.
LocalsStartAfterLocals(locals) == Len(locals.locals)

\* `let locals_start = context.locals.params.len();`
LocalsStart(locals) == Len(locals.params)

\* The slot assignment that follows a function's body.
AssignSlots(locals) ==
    LET local_mapping == SortByType(LocalMapping(locals.locals, 1))
        locals_start == LocalsStart(locals)
    IN [locals EXCEPT !.locals =
            [k \in 1..Len(locals.locals) |->
                IF \E id \in 1..Len(local_mapping) : local_mapping[id][2] = k
                THEN [locals.locals[k] EXCEPT !.index =
                        <<locals_start + (CHOOSE id \in 1..Len(local_mapping) :
                                            local_mapping[id][2] = k) - 1>>]
                ELSE locals.locals[k]]]

\* The Context with the annotations of a tree not yet checked, and back.
WithTree(context) ==
    [global_vars |-> context.global_vars, functions |-> context.functions,
     locals |-> context.locals, local_vars |-> context.local_vars,
     block_stack |-> context.block_stack, return_type |-> context.return_type,
     types |-> EmptyMap, local_ids |-> EmptyMap]

ContextOf(ctx) ==
    [global_vars |-> ctx.global_vars, functions |-> ctx.functions,
     locals |-> ctx.locals, local_vars |-> ctx.local_vars,
     block_stack |-> ctx.block_stack, return_type |-> ctx.return_type]

\* A faulty variant of ReturnTypeCheck: the body's type is not compared.
ReturnTypeUnchecked(st, f, type_, span) == st

\* `if f.body.type_ != f.type_ { result = type_mismatch(...) }`, type_ the body's type.
ReturnTypeCheck(st, f, type_, span) ==
    IF type_ # f.type_
    THEN Record(st, type_mismatch(f.type_, span, type_, Append(span, 1)))
    ELSE st

\* One iteration of the loop over the functions' bodies: the state and the
\* function as the iteration leaves them.
BodyStep(st, f, span) ==
    LET st1 == BindParams([st EXCEPT !.context.local_vars = push_scope(<<>>)], f.params, 1, span)
        context1 == [st1.context EXCEPT !.return_type = f.type_]
        b == tc_expression(WithTree(context1), f.body, Append(span, 1))
        annotated == [f EXCEPT !.types = b.ctx.types, !.local_ids = b.ctx.local_ids]
    IN IF ~b.ok
       THEN [st |-> Abort([st1 EXCEPT !.context = ContextOf(b.ctx)], b.diags), f |-> annotated]
       ELSE LET locals == AssignSlots(b.ctx.locals)
                st2 == [st1 EXCEPT !.context = [ContextOf(b.ctx) EXCEPT !.locals = DefaultLocals]]
            IN [st |-> ReturnTypeCheck(st2, f, b.type_, span),
                f |-> [annotated EXCEPT !.locals = locals]]

\* A faulty variant of StartStep: a start function that is reported as
\* invalid is not compared with the start function found before.
StartStepEither(st, start_fn, functions, i) ==
    LET f == functions[i] IN
    IF ~f.start THEN [st |-> st, start_function |-> start_fn]
    ELSE IF f.params # <<>> \/ f.type_ # None
    THEN [st |-> Record(st, start_function_invalid(FunctionSpan(i))),
          start_function |-> IF start_fn # <<>> THEN start_fn ELSE <<i>>]
    ELSE IF start_fn # <<>>
    THEN [st |-> Record(st, report_duplicate_definition("Start function already defined",
                                FunctionSpan(i), FunctionSpan(start_fn[1]))),
          start_function |-> start_fn]
    ELSE [st |-> st, start_function |-> <<i>>]

\* A faulty variant of StartStep: a start function is invalid only when
\* it has parameters.
StartStepParamsOnly(st, start_fn, functions, i) ==
    LET f == functions[i] IN
    IF ~f.start THEN [st |-> st, start_function |-> start_fn]
    ELSE LET st1 == IF f.params # <<>>
                    THEN Record(st, start_function_invalid(FunctionSpan(i)))
                    ELSE st
         IN IF start_fn # <<>>
            THEN [st |-> Record(st1, report_duplicate_definition("Start function already defined",
                                        FunctionSpan(i), FunctionSpan(start_fn[1]))),
                  start_function |-> start_fn]
            ELSE [st |-> st1, start_function |-> <<i>>]

\* One iteration of the loop that validates the start function: the state
\* and start_function as the iteration leaves them.
StartStep(st, start_fn, functions, i) ==
    LET f == functions[i] IN
    IF ~f.start THEN [st |-> st, start_function |-> start_fn]
    ELSE LET st1 == IF f.params # <<>> \/ f.type_ # None
                    THEN Record(st, start_function_invalid(FunctionSpan(i)))
                    ELSE st
         IN IF start_fn # <<>>
            THEN [st |-> Record(st1, report_duplicate_definition("Start function already defined",
                                        FunctionSpan(i), FunctionSpan(start_fn[1]))),
                  start_function |-> start_fn]
            ELSE [st |-> st1, start_function |-> <<i>>]

NeededType(data_type) ==
    CASE data_type \in {"I8", "I16", "I32"} -> "I32"
      [] data_type = "I64" -> "I64"
      [] data_type = "F32" -> "F32"
      [] data_type = "F64" -> "F64"

\* The loop over the values of one array of a data segment, from the k-th on.
RECURSIVE DataArray(_, _, _, _, _)
DataArray(st, values, needed_type, k, span) ==
    IF k > Len(values) THEN st
    ELSE LET c == tc_const(st.context, values[k], Append(span, k)) IN
         IF ~c.ok THEN Abort(st, c.diags)
         ELSE DataArray(IF c.type_ # needed_type
                        THEN Record(st, type_mismatch(needed_type, Append(span, k),
                                                      c.type_, Append(span, k)))
                        ELSE st,
                        values, needed_type, k + 1, span)

\* The loop over data.data, from the j-th on.
RECURSIVE DataValues(_, _, _, _)
DataValues(st, data, j, span) ==
    IF j > Len(data) \/ st.returned # "Pending" THEN st
    ELSE DataValues(IF data[j].kind = "Array"
                    THEN DataArray(st, data[j].values, NeededType(data[j].type_), 1, Append(span, j))
                    ELSE st,
                    data, j + 1, span)

\* One iteration of the loop over script.data.
DataStep(st, data, span) ==
    LET c == tc_const(st.context, data.offset, Append(span, 0)) IN
    IF ~c.ok THEN Abort(st, c.diags)
    ELSE DataValues(IF c.type_ # "I32"
                    THEN Record(st, type_mismatch("I32", Append(span, 0), c.type_, Append(span, 0)))
                    ELSE st,
                    data.data, 1, span)

(***************************************************************************)
(* The input scripts.                                                      *)
(***************************************************************************)
I32Const == [kind |-> "I32Const"]
I64Const == [kind |-> "I64Const"]
F32Const == [kind |-> "F32Const"]
F64Const == [kind |-> "F64Const"]
Variable(name) == [kind |-> "Variable", name |-> name]
Assign(name, value) == [kind |-> "Assign", name |-> name, value |-> value]
LocalTee(name, value) == [kind |-> "LocalTee", name |-> name, value |-> value]
Let(name, type_, value, let_type) == [kind |-> "Let", name |-> name, type_ |-> type_, value |-> value, let_type |-> let_type]
Block(statements, final_expression) == [kind |-> "Block", statements |-> statements, final_expression |-> final_expression]
Loop(label, block) == [kind |-> "Loop", label |-> label, block |-> block]
LabelBlock(label, block) == [kind |-> "LabelBlock", label |-> label, block |-> block]
Branch(label) == [kind |-> "Branch", label |-> label]
BranchIf(condition, label) == [kind |-> "BranchIf", condition |-> condition, label |-> label]
BinOp(op, left, right) == [kind |-> "BinOp", op |-> op, left |-> left, right |-> right]
UnaryOp(op, value) == [kind |-> "UnaryOp", op |-> op, value |-> value]
FuncCall(name, params) == [kind |-> "FuncCall", name |-> name, params |-> params]
Cast(value, type_) == [kind |-> "Cast", value |-> value, type_ |-> type_]
Select(condition, if_true, if_false) == [kind |-> "Select", condition |-> condition, if_true |-> if_true, if_false |-> if_false]
If(condition, if_true, if_false) == [kind |-> "If", condition |-> condition, if_true |-> if_true, if_false |-> if_false]
Return(value) == [kind |-> "Return", value |-> value]
First(value, drop) == [kind |-> "First", value |-> value, drop |-> drop]
MemoryLocation(left, right) == [left |-> left, right |-> right]
Peek(mem_location) == [kind |-> "Peek", mem_location |-> mem_location]
Poke(mem_location, value) == [kind |-> "Poke", mem_location |-> mem_location, value |-> value]

ImportVariable(name, type_, mutable) == [kind |-> "Variable", name |-> name, type_ |-> type_, mutable |-> mutable, params |-> <<>>]
ImportFunction(name, params, type_) == [kind |-> "Function", name |-> name, type_ |-> type_, mutable |-> FALSE, params |-> params]
ImportMemory == [kind |-> "Memory", name |-> "", type_ |-> None, mutable |-> FALSE, params |-> <<>>]
GlobalVar(name, type_, value, mutable) == [name |-> name, type_ |-> type_, value |-> value, mutable |-> mutable]
Param(name, type_) == [name |-> name, type_ |-> type_]
Function(name, params, type_, start, body) == [name |-> name, params |-> params, type_ |-> type_, start |-> start, body |-> body, locals |-> DefaultLocals, types |-> EmptyMap, local_ids |-> EmptyMap]
DataArrayOf(type_, values) == [kind |-> "Array", type_ |-> type_, values |-> values]
DataString == [kind |-> "String", type_ |-> "I8", values |-> <<>>]
Data(offset, data) == [offset |-> offset, data |-> data]
Script(imports, global_vars, functions, data) == [imports |-> imports, global_vars |-> global_vars, functions |-> functions, data |-> data]

EmptyBody == Block(<<>>, NoExpr)

\* Scripts whose imports vary.
ImportChoices ==
    { ImportVariable("g", "I32", TRUE), ImportVariable("g", "F32", FALSE),
      ImportFunction("f", <<"I32">>, "I32"), ImportFunction("f", <<>>, None), ImportMemory }

ImportScripts ==
    { Script(imports, global_vars, functions, <<>>) :
        imports \in SeqsUpTo(ImportChoices, MaxImports),
        global_vars \in {<<>>, <<GlobalVar("g", None, I64Const, FALSE)>>},
        functions \in {<<>>, <<Function("f", <<Param("g", "I32")>>, "F32", FALSE,
                                        Block(<<>>, Variable("g")))>>} }

\* Scripts whose global variables and data segments vary.
GlobalChoices ==
    { GlobalVar("g", None, I32Const, TRUE), GlobalVar("g", "F32", F32Const, FALSE),
      GlobalVar("h", "I32", F32Const, TRUE), GlobalVar("h", None, Variable("g"), FALSE),
      GlobalVar("h", "F64", F64Const, FALSE) }

DataChoices ==
    { <<>>,
      <<Data(I32Const, <<DataArrayOf("I8", <<I32Const, F32Const>>), DataString>>)>>,
      <<Data(F32Const, <<DataArrayOf("F32", <<F32Const, Variable("g")>>)>>),
        Data(I32Const, <<>>)>> }

GlobalScripts ==
    { Script(imports, global_vars, functions, data) :
        imports \in {<<>>, <<ImportVariable("g", "I32", TRUE)>>},
        global_vars \in SeqsUpTo(GlobalChoices, MaxGlobals),
        functions \in {<<>>,
                       <<Function("f", <<>>, "I32", FALSE,
                                  Block(<<Assign("h", I32Const)>>, Variable("g")))>>,
                       <<Function("f", <<>>, "I32", FALSE,
                                  Block(<<Assign("h", I32Const)>>, Variable("g"))),
                         Function("s", <<>>, None, TRUE, EmptyBody)>>},
        data \in DataChoices }

\* Scripts whose function declarations vary.
FunctionChoices ==
    { Function("f", <<>>, None, TRUE, EmptyBody),
      Function("f", <<Param("a", "I32")>>, "I32", TRUE, Block(<<>>, Variable("a"))),
      Function("k", <<>>, None, TRUE, Block(<<>>, FuncCall("f", <<I32Const>>))),
      Function("k", <<Param("a", "I32"), Param("a", "F32")>>, "I32", FALSE,
               Block(<<Let("x", None, I32Const, "Normal")>>, Variable("u"))),
      Function("k", <<>>, None, FALSE,
               Block(<<Let("x", "I32", NoExpr, "Normal"), Let("x", "F32", NoExpr, "Inline")>>,
                     NoExpr)) }

FunctionScripts ==
    { Script(imports, global_vars, functions, <<>>) :
        imports \in {<<>>, <<ImportFunction("f", <<"I32">>, "I32")>>},
        global_vars \in {<<>>, <<GlobalVar("a", None, I32Const, TRUE)>>,
                         <<GlobalVar("g", None, I32Const, TRUE),
                           GlobalVar("g", "F32", F32Const, TRUE)>>},
        functions \in SeqsUpTo(FunctionChoices, MaxFuncs) }

\* Scripts of one function whose locals vary.
SlotStatements ==
    { Let("a", "I32", I32Const, "Normal"),
      Let("b", "F32", F32Const, "Normal"),
      Let("c", "I32", NoExpr, "Normal"),
      Let("a", None, F64Const, "Inline"),
      Let("b", "I64", NoExpr, "Normal"),
      Assign("a", I32Const),
      LocalTee("a", F64Const),
      Block(<<Let("c", "F32", NoExpr, "Normal"), Assign("a", Variable("c"))>>, NoExpr) }

SlotParams ==
    { <<>>, <<Param("a", "F64")>>, <<Param("p", "I32"), Param("c", "F32")>> }

SlotScripts ==
    { Script(<<>>, <<>>, <<Function("f", params, None, FALSE, Block(statements, NoExpr))>>, <<>>) :
        params \in SlotParams, statements \in SeqsUpTo(SlotStatements, MaxLets) }

\* Scripts whose loops, labeled blocks and branches vary.
LabelStatements ==
    { Branch("l"),
      BranchIf(I32Const, "m"),
      Loop("l", Block(<<Branch("l")>>, NoExpr)),
      Loop("m", Block(<<>>, NoExpr)),
      Loop("l", Block(<<Loop("m", Block(<<BranchIf(I32Const, "l")>>, NoExpr)), Branch("m")>>,
                      NoExpr)),
      LabelBlock("m", Block(<<Branch("m")>>, NoExpr)),
      LabelBlock("l", Block(<<LabelBlock("m", EmptyBody), Branch("m")>>, NoExpr)) }

LabelScripts ==
    { Script(<<>>, <<>>,
             <<Function("f", <<>>, None, FALSE, Block(statements, NoExpr))>> \o second, <<>>) :
        statements \in SeqsUpTo(LabelStatements, MaxStmts),
        second \in {<<>>,
                    <<Function("k", <<>>, None, FALSE, Block(<<Branch("l")>>, NoExpr))>>,
                    <<Function("k", <<>>, None, FALSE,
                               Loop("m", Block(<<BranchIf(I32Const, "m")>>, NoExpr)))>>} }

\* Scripts of one function whose body is a call.
CallNames == {"f", "k", "sqrt", "min", "u"}

CallParams ==
    { <<>>, <<I32Const>>, <<F32Const>>, <<F64Const>>, <<F32Const, F32Const>>,
      <<I32Const, I32Const>>, <<I32Const, Branch("l")>> }

CallScripts ==
    { Script(imports,
             <<>>,
             <<Function("f", <<Param("a", "I32")>>, type_, FALSE,
                        Block(<<>>, FuncCall(name, params)))>> \o second,
             <<>>) :
        imports \in {<<>>, <<ImportFunction("k", <<"I32", "I32">>, None)>>,
                    <<ImportFunction("min", <<"I32", "I32">>, "I32")>>},
        type_ \in {None, "I32"},
        name \in CallNames,
        params \in CallParams,
        second \in {<<>>, <<Function("sqrt", <<Param("a", "I32")>>, "I64", FALSE,
                                     Block(<<>>, I64Const))>>} }

\* Scripts of one function whose return type and trailing expression vary.
ReturnScripts ==
    { Script(<<>>, <<>>, <<Function("add", params, type_, FALSE, Block(statements, final))>>, <<>>) :
        params \in {<<>>, <<Param("a", "I32"), Param("b", "I32")>>},
        type_ \in {None, "I32", "F32"},
        statements \in {<<>>, <<Let("x", None, F32Const, "Normal")>>, <<Return(NoExpr)>>,
                        <<Return(I32Const)>>, <<Return(F32Const)>>, <<Return(EmptyBody)>>},
        final \in {NoExpr, BinOp("Add", Variable("a"), Variable("b")), F32Const, I32Const,
                   Variable("x")} }

\* Scripts of one function whose blocks, lets and variable reads vary, with
\* or without a parameter and a global variable of the name read.
ScopeScripts ==
    { Script(<<>>, global_vars,
             <<Function("f", params, None, FALSE, Block(statements, final))>>, <<>>) :
        global_vars \in {<<>>, <<GlobalVar("x", None, I64Const, TRUE)>>},
        params \in {<<>>, <<Param("x", "F64")>>},
        statements \in SeqsUpTo({ Let("x", "I32", NoExpr, "Normal"),
                                  Let("x", None, Variable("x"), "Normal"),
                                  Let("y", "F32", NoExpr, "Inline"),
                                  Block(<<Let("x", "F32", NoExpr, "Normal")>>, Variable("x")),
                                  Block(<<>>, Variable("x")),
                                  Variable("y") }, MaxStmts),
        final \in {NoExpr, Variable("x"),
                   Block(<<Let("x", "F32", NoExpr, "Inline")>>, Variable("x"))} }

\* Scripts whose functions call themselves, each other and functions
\* declared after them.
MutualScripts ==
    { Script(imports, <<>>, functions, <<>>) :
        imports \in {<<>>, <<ImportFunction("k", <<"F32">>, None)>>},
        functions \in SeqsUpTo(
            { Function("f", <<>>, None, FALSE, Block(<<FuncCall("k", <<I32Const>>)>>, NoExpr)),
              Function("k", <<Param("a", "I32")>>, "I32", FALSE,
                       Block(<<FuncCall("f", <<>>)>>, Variable("a"))),
              Function("k", <<>>, "F32", FALSE, Block(<<>>, FuncCall("k", <<>>))),
              Function("f", <<Param("a", "F32")>>, "F32", FALSE,
                       Block(<<>>, FuncCall("f", <<Variable("a")>>))) }, MaxFuncs) }

\* Scripts whose functions carry the start flag or not, with and without
\* parameters and a return type.
StartScripts ==
    { Script(<<>>, <<>>, functions, <<>>) :
        functions \in SeqsUpTo(
            { Function("s", <<>>, None, TRUE, EmptyBody),
              Function("t", <<>>, None, TRUE, EmptyBody),
              Function("p", <<Param("a", "I32")>>, None, TRUE, EmptyBody),
              Function("r", <<>>, "I32", TRUE, Block(<<>>, I32Const)),
              Function("n", <<>>, None, FALSE, EmptyBody),
              Function("m", <<Param("a", "I32")>>, "I32", FALSE, Block(<<>>, Variable("a"))) },
            MaxFuncs) }

\* Scripts of one function f(p: i32), beside a mutable global g and an
\* immutable global h, whose body is one expression: an if, a select, a
\* branch_if in a loop, a let, a binary operation, or an assignment or
\* local-tee after at most one let.
Operands == {I32Const, I64Const, F32Const, F64Const, EmptyBody}

RuleExprs ==
    { If(c, t, e) :
        c \in Operands, t \in {I32Const, F32Const, EmptyBody},
        e \in {NoExpr, I32Const, F32Const, EmptyBody} }
    \cup { Select(c, t, e) :
             c \in Operands, t \in {I32Const, F32Const, EmptyBody}, e \in {I32Const, F32Const} }
    \cup { Loop("l", Block(<<BranchIf(c, label)>>, NoExpr)) :
             c \in Operands, label \in {"l", "u"} }
    \cup { Let("x", type_, value, let_type) :
             type_ \in {None, "I32", "F32"}, value \in {NoExpr, I32Const, F32Const, EmptyBody},
             let_type \in {"Normal", "Inline"} }
    \cup { BinOp(op, l, r) :
             op \in ArithOps \cup IntOps \cup CmpOps \cup UnsignedCmpOps,
             l \in Operands, r \in Operands }
    \cup { Block(pre \o <<Assign(name, value)>>, NoExpr) :
             pre \in {<<>>, <<Let("g", None, I32Const, "Inline")>>,
                      <<Let("h", "F32", NoExpr, "Normal")>>},
             name \in {"p", "g", "h", "u"}, value \in {I32Const, F32Const, EmptyBody} }
    \cup { Block(pre \o <<LocalTee(name, value)>>, NoExpr) :
             pre \in {<<>>, <<Let("g", None, I32Const, "Inline")>>,
                      <<Let("h", "F32", NoExpr, "Normal")>>},
             name \in {"p", "g", "h", "u"}, value \in {I32Const, F32Const, EmptyBody} }

RuleScripts ==
    { Script(<<>>,
             <<GlobalVar("g", "I32", I32Const, TRUE), GlobalVar("h", "I32", I32Const, FALSE)>>,
             <<Function("f", <<Param("p", "I32")>>, None, FALSE, Block(<<expr>>, NoExpr))>>,
             <<>>) :
        expr \in RuleExprs }

\* The families of input scripts; a run checks a script of one of them.
ScriptFamilies ==
    << ImportScripts, GlobalScripts, FunctionScripts, SlotScripts,
       LabelScripts, CallScripts, ReturnScripts, ScopeScripts, MutualScripts,
       StartScripts, RuleScripts >>

(***************************************************************************)
(* The state of one run of tc_script.                                      *)
(***************************************************************************)
VARIABLES script, context, result, diags, returned, start_function, pc, idx

\* The state of one run of parser2::parse: the source text, the lexer's
\* tokens, the script the parser built, the errors reported, what parse
\* returned and the stage it is in.
VARIABLES source, tokens, parsed, reports, parse_returned, stage

vars == <<script, context, result, diags, returned, start_function, pc, idx,
          source, tokens, parsed, reports, parse_returned, stage>>

\* A faulty variant of Phases: the bodies are checked before the loop that
\* registers the signatures.
PhasesBodiesFirst == <<"imports", "globals", "bodies", "signatures", "start", "data">>

\* The loops of tc_script in the order it runs them.
Phases == <<"imports", "globals", "signatures", "bodies", "start", "data">>

Items(s, phase) ==
    CASE phase = "imports" -> s.imports
      [] phase = "globals" -> s.global_vars
      [] phase \in {"signatures", "bodies", "start"} -> s.functions
      [] phase = "data" -> s.data

\* The first loop from the p-th on that has an item to visit, or "return".
RECURSIVE FirstLoop(_, _)
FirstLoop(s, p) ==
    IF p > Len(Phases) THEN "return"
    ELSE IF Items(s, Phases[p]) # <<>> THEN Phases[p]
    ELSE FirstLoop(s, p + 1)

PhaseIndex(phase) == CHOOSE p \in 1..Len(Phases) : Phases[p] = phase

St == [context |-> context, result |-> result, diags |-> diags, returned |-> returned]

\* A faulty variant of Step: tc_script returns Err(()) at the end of a loop
\* when result is Err(()).
StepAbortingAfterLoop(st2) ==
    /\ context' = st2.context
    /\ result' = st2.result
    /\ diags' = st2.diags
    /\ IF st2.returned # "Pending" THEN returned' = st2.returned /\ pc' = pc /\ idx' = idx
       ELSE IF idx < Len(Items(script, pc))
       THEN returned' = st2.returned /\ pc' = pc /\ idx' = idx + 1
       ELSE IF st2.result = "Err" THEN returned' = "Err" /\ pc' = pc /\ idx' = idx
       ELSE returned' = st2.returned /\ pc' = FirstLoop(script, PhaseIndex(pc) + 1) /\ idx' = 1

\* The step leaves the variables of st as st2 has them, and the position at
\* the next item, the next loop or the return; where it is when the step returned.
Step(st2) ==
    /\ context' = st2.context
    /\ result' = st2.result
    /\ diags' = st2.diags
    /\ returned' = st2.returned
    /\ IF st2.returned # "Pending" THEN pc' = pc /\ idx' = idx
       ELSE IF idx < Len(Items(script, pc)) THEN pc' = pc /\ idx' = idx + 1
       ELSE pc' = FirstLoop(script, PhaseIndex(pc) + 1) /\ idx' = 1

Init ==
    /\ \E family \in 1..Len(ScriptFamilies) : script \in ScriptFamilies[family]
    /\ context = [global_vars |-> EmptyMap, functions |-> EmptyMap, locals |-> DefaultLocals,
                  local_vars |-> <<>>, block_stack |-> <<>>, return_type |-> None]
    /\ result = "Ok"
    /\ diags = <<>>
    /\ returned = "Pending"
    /\ start_function = <<>>
    /\ pc = FirstLoop(script, 1)
    /\ idx = 1
    /\ source = <<>> /\ tokens = <<>> /\ parsed = <<>> /\ reports = <<>>
    /\ parse_returned = "Pending" /\ stage = "none"

RegisterImport ==
    /\ returned = "Pending"
    /\ pc = "imports"
    /\ Step(ImportStep(St, script.imports[idx], ImportSpan(idx)))
    /\ UNCHANGED <<script, start_function, source, tokens, parsed, reports, parse_returned, stage>>

RegisterGlobal ==
    /\ returned = "Pending"
    /\ pc = "globals"
    /\ LET g == GlobalStep(St, script.global_vars[idx], GlobalSpan(idx)) IN
       /\ Step(g.st)
       /\ script' = [script EXCEPT !.global_vars[idx] = g.v]
    /\ UNCHANGED <<start_function, source, tokens, parsed, reports, parse_returned, stage>>

RegisterSignature ==
    /\ returned = "Pending"
    /\ pc = "signatures"
    /\ Step(SignatureStep(St, script.functions[idx], FunctionSpan(idx)))
    /\ UNCHANGED <<script, start_function, source, tokens, parsed, reports, parse_returned, stage>>

CheckBody ==
    /\ returned = "Pending"
    /\ pc = "bodies"
    /\ LET b == BodyStep(St, script.functions[idx], FunctionSpan(idx)) IN
       /\ Step(b.st)
       /\ script' = [script EXCEPT !.functions[idx] = b.f]
    /\ UNCHANGED <<start_function, source, tokens, parsed, reports, parse_returned, stage>>

CheckStart ==
    /\ returned = "Pending"
    /\ pc = "start"
    /\ LET s == StartStep(St, start_function, script.functions, idx) IN
       /\ Step(s.st)
       /\ start_function' = s.start_function
    /\ UNCHANGED <<script, source, tokens, parsed, reports, parse_returned, stage>>

CheckData ==
    /\ returned = "Pending"
    /\ pc = "data"
    /\ Step(DataStep(St, script.data[idx], DataSpan(idx)))
    /\ UNCHANGED <<script, start_function, source, tokens, parsed, reports, parse_returned, stage>>

ReturnResult ==
    /\ returned = "Pending"
    /\ pc = "return"
    /\ returned' = result
    /\ UNCHANGED <<script, context, result, diags, start_function, pc, idx>>
    /\ UNCHANGED <<source, tokens, parsed, reports, parse_returned, stage>>

Next ==
    \/ RegisterImport
    \/ RegisterGlobal
    \/ RegisterSignature
    \/ CheckBody
    \/ CheckStart
    \/ CheckData
    \/ ReturnResult

Spec == Init /\ [][Next]_vars

(***************************************************************************)
(* parser2: the lexer.  A source is a sequence of characters; a token has  *)
(* a kind, its text as a sequence of characters, and a span of character   *)
(* offsets.  The character classes are those of the sources checked here:  *)
(* no quote, no '.', no '/' and no '0' (strings, floats, comments and      *)
(* integers with a leading zero do not occur).                             *)
(***************************************************************************)
CharClasses ==
    [op |-> {"+", "-", "*", "/", "%", "&", "^", "|", "<", "=", ">"},
     ctrl |-> {"(", ")", "{", "}", ";", ",", ":", "?", "!"},
     digit |-> {"1", "2", "3", "4", "6"},
     letter |-> {"a", "b", "c", "f", "i", "n"},
     space |-> {" "}]

\* The offset after the longest run of characters of a class from p on.
RECURSIVE Munch(_, _, _)
Munch(src, p, class) ==
    IF p <= Len(src) /\ src[p] \in class THEN Munch(src, p + 1, class) ELSE p

\* lexer(): the tokens of src from offset p on, after toks, and the errors
\* after errs.  A run of characters that start no token is one error, at
\* its first character; the lexer skips the run and goes on.
RECURSIVE lexer(_, _, _, _)
lexer(src, p, toks, errs) ==
    IF p > Len(src) THEN [tokens |-> toks, errors |-> errs]
    ELSE LET ch == src[p]
             class == CASE ch \in CharClasses.digit -> CharClasses.digit
                        [] ch \in CharClasses.op -> CharClasses.op
                        [] ch \in CharClasses.letter -> CharClasses.letter \cup CharClasses.digit
                        [] OTHER -> {}
             q == Munch(src, p, class)
             token(kind, last) ==
                 [kind |-> kind, text |-> SubSeq(src, p, last), span |-> <<p - 1, last>>]
             keyword == IF SubSeq(src, p, q - 1) = <<"f", "n">> THEN "Fn" ELSE "Ident"
         IN IF ch \in CharClasses.space THEN lexer(src, p + 1, toks, errs)
            ELSE IF ch \in CharClasses.digit
            THEN lexer(src, q, Append(toks, token("Int", q - 1)), errs)
            ELSE IF ch \in CharClasses.op
            THEN lexer(src, q, Append(toks, token("Op", q - 1)), errs)
            ELSE IF ch = ":" /\ p < Len(src) /\ src[p + 1] = "="
            THEN lexer(src, p + 2, Append(toks, token("Op", p + 1)), errs)
            ELSE IF ch \in CharClasses.ctrl
            THEN lexer(src, p + 1, Append(toks, token("Ctrl", p)), errs)
            ELSE IF ch \in CharClasses.letter
            THEN lexer(src, q, Append(toks, token(keyword, q - 1)), errs)
            ELSE LET known == UNION { CharClasses[c] : c \in DOMAIN CharClasses }
                     r == Munch(src, p, {c \in {src[k] : k \in p..Len(src)} : c \notin known})
                 IN lexer(src, r, toks,
                          Append(errs, [stage |-> "lexer", reason |-> "Unexpected",
                                        span |-> <<p - 1, p>>, found |-> ch]))

(***************************************************************************)
(* parser2: the expression grammar.  A parser takes the tokens and a       *)
(* position and gives [ok, expr, pos]; a failed parser consumes nothing.   *)
(* The atoms are those the token kinds above can form: a value and a       *)
(* variable.                                                               *)
(***************************************************************************)
\* A faulty variant of LayerOps: the sum layer binds tighter than the
\* product layer.
LayerOpsSumFirst ==
    << (<<"+">> :> "Add") @@ (<<"-">> :> "Sub"),
       (<<"*">> :> "Mul") @@ (<<"/">> :> "Div") @@ (<<"%">> :> "Rem"),
       (<<"=", "=">> :> "Eq") @@ (<<"!", "=">> :> "Ne") @@ (<<"<">> :> "Lt")
           @@ (<<"<", "=">> :> "Le") @@ (<<">">> :> "Gt") @@ (<<">", "=">> :> "Ge"),
       (<<"&">> :> "And") @@ (<<"|">> :> "Or") @@ (<<"^">> :> "Xor") >>

\* The operators of op_product, op_sum, op_cmp and op_bit, by token text.
LayerOps ==
    << (<<"*">> :> "Mul") @@ (<<"/">> :> "Div") @@ (<<"%">> :> "Rem"),
       (<<"+">> :> "Add") @@ (<<"-">> :> "Sub"),
       (<<"=", "=">> :> "Eq") @@ (<<"!", "=">> :> "Ne") @@ (<<"<">> :> "Lt")
           @@ (<<"<", "=">> :> "Le") @@ (<<">">> :> "Gt") @@ (<<">", "=">> :> "Ge"),
       (<<"&">> :> "And") @@ (<<"|">> :> "Or") @@ (<<"^">> :> "Xor") >>

IsToken(toks, p, kind, texts) ==
    p <= Len(toks) /\ toks[p].kind = kind /\ toks[p].text \in texts

atom(toks, p) ==
    IF p <= Len(toks) /\ toks[p].kind \in {"Int", "Ident"}
    THEN [ok |-> TRUE, pos |-> p + 1,
          expr |-> [kind |-> IF toks[p].kind = "Int" THEN "I32Const" ELSE "Variable",
                    text |-> toks[p].text, span |-> toks[p].span]]
    ELSE [ok |-> FALSE, pos |-> p]

\* One precedence layer: a seed of the next tighter layer, then the fold
\* over the repeated pairs (operator, operand of the next tighter layer).
RECURSIVE op_layer(_, _, _), op_fold(_, _, _, _)
op_layer(level, toks, p) ==
    IF level = 0 THEN atom(toks, p)
    ELSE LET seed == op_layer(level - 1, toks, p) IN
         IF ~seed.ok THEN seed ELSE op_fold(level, toks, seed.expr, seed.pos)

op_fold(level, toks, left, p) ==
    IF ~IsToken(toks, p, "Op", DOMAIN LayerOps[level])
    THEN [ok |-> TRUE, pos |-> p, expr |-> left]
    ELSE LET right == op_layer(level - 1, toks, p + 1) IN
         IF ~right.ok THEN [ok |-> TRUE, pos |-> p, expr |-> left]
         ELSE op_fold(level, toks,
                      [kind |-> "BinOp", op |-> LayerOps[level][toks[p].text],
                       left |-> left, right |-> right.expr,
                       span |-> <<left.span[1], right.expr.span[2]>>],
                      right.pos)

expression(toks, p) == op_layer(Len(LayerOps), toks, p)

\* block_parser: expressions each followed by ';', then an optional
\* trailing expression.
RECURSIVE block_statements(_, _, _)
block_statements(toks, p, statements) ==
    LET e == expression(toks, p) IN
    IF e.ok /\ IsToken(toks, e.pos, "Ctrl", {<<";">>})
    THEN block_statements(toks, e.pos + 1, Append(statements, e.expr))
    ELSE [statements |-> statements, pos |-> p]

block_parser(toks, p) ==
    LET s == block_statements(toks, p, <<>>)
        e == expression(toks, s.pos)
    IN [pos |-> IF e.ok THEN e.pos ELSE s.pos,
        block |-> [statements |-> s.statements,
                   final_expression |-> IF e.ok THEN e.expr ELSE NoExpr]]

\* The function item: fn, a name, an empty parameter list, an optional
\* return type and a block in braces.
function_item(toks, p) ==
    LET typed == IsToken(toks, p + 4, "Op", {<<"-", ">">>})
        open == IF typed THEN p + 6 ELSE p + 4
        b == block_parser(toks, open + 1)
    IN IF /\ IsToken(toks, p, "Fn", {<<"f", "n">>})
          /\ p + 1 <= Len(toks) /\ toks[p + 1].kind = "Ident"
          /\ IsToken(toks, p + 2, "Ctrl", {<<"(">>})
          /\ IsToken(toks, p + 3, "Ctrl", {<<")">>})
          /\ typed => IsToken(toks, p + 5, "Ident", {<<"i", "3", "2">>, <<"i", "6", "4">>,
                                                     <<"f", "3", "2">>, <<"f", "6", "4">>})
          /\ IsToken(toks, open, "Ctrl", {<<"{">>})
          /\ IsToken(toks, b.pos, "Ctrl", {<<"}">>})
       THEN [ok |-> TRUE, pos |-> b.pos + 1,
             item |-> [name |-> toks[p + 1].text,
                       type_ |-> IF typed THEN toks[p + 5].text ELSE <<>>,
                       body |-> b.block,
                       span |-> <<toks[p].span[1], toks[b.pos].span[2]>>]]
       ELSE [ok |-> FALSE, pos |-> p]

\* script_parser: the items, then the end of the input.  A token sequence
\* that is no script gives an error; its span is not modelled.
RECURSIVE script_parser(_, _, _)
script_parser(toks, p, functions) ==
    LET f == function_item(toks, p) IN
    IF f.ok THEN script_parser(toks, f.pos, Append(functions, f.item))
    ELSE IF p > Len(toks)
    THEN [script |-> <<[functions |-> functions]>>, errors |-> <<>>]
    ELSE [script |-> <<>>, errors |-> <<[stage |-> "parser", reason |-> "Unexpected"]>>]

(***************************************************************************)
(* parser2::parse as a state machine: the lexer, then the script parser.   *)
(***************************************************************************)
\* The longest body, in characters, of the sources parse is run on, and the
\* most operators of a body the script parser is run on.
MaxChars == 4

MaxOperators == 2

\* Either parse is run on the text of fn f(){body}, or the script parser is
\* run on the tokens of fn f(){a op b op c ...}, one offset to a token, with
\* operators of the four layers.
ParseInit ==
    /\ script = Script(<<>>, <<>>, <<>>, <<>>)
    /\ context = [global_vars |-> EmptyMap, functions |-> EmptyMap, locals |-> DefaultLocals,
                  local_vars |-> <<>>, block_stack |-> <<>>, return_type |-> None]
    /\ result = "Ok" /\ diags = <<>> /\ returned = "Pending"
    /\ start_function = <<>> /\ pc = "none" /\ idx = 1
    /\ parsed = <<>> /\ reports = <<>> /\ parse_returned = "Pending"
    /\ \/ /\ stage = "lexer"
          /\ \E body \in SeqsUpTo({"a", "1", "+", "*", "<", "=", ";", "#"}, MaxChars) :
                source = <<"f", "n", " ", "f", "(", ")", "{">> \o body \o <<"}">>
          /\ tokens = <<>>
       \/ /\ stage = "parser"
          /\ source = <<>>
          /\ \E ops \in SeqsUpTo(UNION { DOMAIN LayerOps[level] : level \in 1..Len(LayerOps) },
                                  MaxOperators) :
                LET operand == << <<"Ident", <<"a">> >>, <<"Ident", <<"b">> >>,
                                  <<"Ident", <<"c">> >>, <<"Int", <<"1">> >>,
                                  <<"Ident", <<"a">> >>, <<"Int", <<"2">> >> >>
                    term(k) == IF k % 2 = 1 THEN operand[(k + 1) \div 2]
                               ELSE <<"Op", ops[k \div 2]>>
                    all == << <<"Fn", <<"f", "n">> >>, <<"Ident", <<"f">> >>,
                              <<"Ctrl", <<"(">> >>, <<"Ctrl", <<")">> >>, <<"Ctrl", <<"{">> >> >>
                           \o [k \in 1..(2 * Len(ops) + 1) |-> term(k)]
                           \o << <<"Ctrl", <<"}">> >> >>
                IN tokens = [k \in 1..Len(all) |->
                               [kind |-> all[k][1], text |-> all[k][2], span |-> <<k - 1, k>>]]

\* `lexer().parse(source)`: errors are reported and parse returns Err(()).
RunLexer ==
    /\ stage = "lexer"
    /\ LET l == lexer(source, 1, <<>>, <<>>) IN
       IF l.errors # <<>>
       THEN /\ reports' = reports \o l.errors
            /\ parse_returned' = "Err"
            /\ stage' = "done"
            /\ tokens' = tokens
       ELSE /\ tokens' = l.tokens
            /\ stage' = "parser"
            /\ UNCHANGED <<reports, parse_returned>>
    /\ UNCHANGED <<source, parsed>>
    /\ UNCHANGED <<script, context, result, diags, returned, start_function, pc, idx>>

\* `script_parser().parse(tokens)`: errors are reported and parse returns
\* Err(()); otherwise the script is printed and parse returns Ok(()).
RunScriptParser ==
    /\ stage = "parser"
    /\ LET s == script_parser(tokens, 1, <<>>) IN
       /\ parsed' = s.script
       /\ reports' = reports \o s.errors
       /\ parse_returned' = IF s.errors # <<>> THEN "Err" ELSE "Ok"
    /\ stage' = "done"
    /\ UNCHANGED <<source, tokens>>
    /\ UNCHANGED <<script, context, result, diags, returned, start_function, pc, idx>>

ParseNext == RunLexer \/ RunScriptParser

ParseSpec == ParseInit /\ [][ParseNext]_vars

(***************************************************************************)
(* Reading the run and the tree.                                           *)
(***************************************************************************)
FunctionIds == 1..Len(script.functions)

PcIndex == IF pc = "return" THEN Len(Phases) + 1 ELSE PhaseIndex(pc)

\* The k-th iteration of a loop has run to its end.
Completed(phase, k) == PcIndex > PhaseIndex(phase) \/ (pc = phase /\ k < idx)

\* The k-th iteration of a loop has been entered: it has run to its end, or
\* tc_script returned from inside it.
Visited(phase, k) == Completed(phase, k) \/ (pc = phase /\ k = idx /\ returned # "Pending")

\* tc_script returned from inside a loop.
Aborted == returned = "Err" /\ pc # "return"

LastDiag == diags[Len(diags)]

DiagSet == {diags[k] : k \in 1..Len(diags)}

ChildCount(expr) ==
    CASE expr.kind = "Block" ->
            Len(expr.statements) + (IF expr.final_expression.kind # "NoExpr" THEN 1 ELSE 0)
      [] expr.kind \in {"Let", "Return"} -> IF expr.value.kind # "NoExpr" THEN 1 ELSE 0
      [] expr.kind \in {"Assign", "LocalTee", "UnaryOp", "Cast", "Loop", "LabelBlock", "BranchIf"} -> 1
      [] expr.kind \in {"BinOp", "First", "Peek"} -> 2
      [] expr.kind \in {"Select", "Poke"} -> 3
      [] expr.kind = "If" -> IF expr.if_false.kind # "NoExpr" THEN 3 ELSE 2
      [] expr.kind = "FuncCall" -> Len(expr.params)
      [] OTHER -> 0

\* The k-th child of a node; its span is the node's span with k appended.
Child(expr, k) ==
    CASE expr.kind = "Block" ->
            IF k <= Len(expr.statements) THEN expr.statements[k] ELSE expr.final_expression
      [] expr.kind \in {"Let", "Return", "Assign", "LocalTee", "UnaryOp", "Cast"} -> expr.value
      [] expr.kind \in {"Loop", "LabelBlock"} -> expr.block
      [] expr.kind = "BranchIf" -> expr.condition
      [] expr.kind = "BinOp" -> IF k = 1 THEN expr.left ELSE expr.right
      [] expr.kind = "First" -> IF k = 1 THEN expr.value ELSE expr.drop
      [] expr.kind \in {"Select", "If"} ->
            IF k = 1 THEN expr.condition ELSE IF k = 2 THEN expr.if_true ELSE expr.if_false
      [] expr.kind = "FuncCall" -> expr.params[k]
      [] expr.kind \in {"Peek", "Poke"} ->
            IF k = 1 THEN expr.mem_location.left
            ELSE IF k = 2 THEN expr.mem_location.right ELSE expr.value

RECURSIVE NodeAt(_, _)
NodeAt(expr, path) ==
    IF path = <<>> THEN expr ELSE NodeAt(Child(expr, Head(path)), Tail(path))

\* The node of function f at a span <<3, i, 1>> \o path.
Node(f, span) == NodeAt(f.body, SubSeq(span, 4, Len(span)))

RECURSIVE NodeSpans(_, _)
NodeSpans(expr, span) ==
    {span} \cup UNION { NodeSpans(Child(expr, k), Append(span, k)) : k \in 1..ChildCount(expr) }

BodySpan(i) == Append(FunctionSpan(i), 1)

\* The spans of the nodes of the i-th function's body.
BodyNodes(i) == NodeSpans(script.functions[i].body, BodySpan(i))

\* The checker came to the q-th child of the node at parent: the children
\* before it were checked successfully, and so were the checks the rule
\* makes between them.
CameToChild(f, parent, q) ==
    LET p == Node(f, parent) IN
    /\ \A j \in 1..(q - 1) :
          \/ p.kind \in {"Peek", "Poke"} /\ j = 2
          \/ Append(parent, j) \in DOMAIN f.types
    /\ p.kind = "FuncCall" => \A j \in 1..(q - 1) : f.types[Append(parent, j)] # None
    /\ p.kind = "Poke" /\ q = 3 =>
          f.types[Append(parent, 1)] = "I32" /\ p.mem_location.right.kind = "I32Const"

\* The checker came to the node at span in the body of f.
CameTo(f, span) ==
    \A m \in 4..Len(span) : CameToChild(f, SubSeq(span, 1, m - 1), span[m])

\* The labels of the loops and labeled blocks that enclose the node at span.
EnclosingLabels(f, span) ==
    { Node(f, SubSeq(span, 1, m)).label :
        m \in { n \in 3..(Len(span) - 1) :
                  Node(f, SubSeq(span, 1, n)).kind \in {"Loop", "LabelBlock"} } }

\* The arena of the i-th function as the checker left it: the function's
\* Locals table once its body is done, the context's while it is not.
LocalsOf(i) ==
    IF Completed("bodies", i) THEN script.functions[i].locals ELSE context.locals

\* The positions in a sequence of locals of those that have a slot.
Stored(locals_) == { k \in 1..Len(locals_) : locals_[k].index # <<>> }

\* The declarations of global variables and of functions in the order the
\* checker registers them, each with the table entry its registration makes.
ImportDecls(s, kind) ==
    SelectSeq([k \in 1..Len(s.imports) |->
                 [kind |-> s.imports[k].kind, name |-> s.imports[k].name, span |-> ImportSpan(k),
                  entry |-> IF s.imports[k].kind = "Variable"
                            THEN Var(ImportSpan(k), s.imports[k].type_, s.imports[k].mutable)
                            ELSE FunctionType(ImportSpan(k), s.imports[k].params,
                                              s.imports[k].type_)]],
              LAMBDA d : d.kind = kind)

GlobalDecls(s) ==
    ImportDecls(s, "Variable") \o
    [k \in 1..Len(s.global_vars) |->
        [kind |-> "Variable", name |-> s.global_vars[k].name, span |-> GlobalSpan(k),
         entry |-> Var(GlobalSpan(k), s.global_vars[k].type_, s.global_vars[k].mutable)]]

FunctionDecls(s) ==
    ImportDecls(s, "Function") \o
    [k \in 1..Len(s.functions) |->
        [kind |-> "Function", name |-> s.functions[k].name, span |-> FunctionSpan(k),
         entry |-> FunctionType(FunctionSpan(k),
                                [j \in 1..Len(s.functions[k].params) |->
                                    s.functions[k].params[j].type_],
                                s.functions[k].type_)]]

\* The registration of the declaration at span has run to its end / been entered.
DeclCompleted(span) ==
    CASE span[1] = 1 -> Completed("imports", span[2])
      [] span[1] = 2 -> Completed("globals", span[2])
      [] span[1] = 3 -> Completed("signatures", span[2])

DeclVisited(span) ==
    CASE span[1] = 1 -> Visited("imports", span[2])
      [] span[1] = 2 -> Visited("globals", span[2])
      [] span[1] = 3 -> Visited("signatures", span[2])

\* The first declaration of a name in a sequence of declarations.
FirstDecl(decls, name) ==
    decls[CHOOSE k \in 1..Len(decls) :
            decls[k].name = name /\ \A j \in 1..(k - 1) : decls[j].name # name]

\* The declarations that repeat the name of an earlier one of the sequence.
Repeats(decls) ==
    { k \in 1..Len(decls) : \E j \in 1..(k - 1) : decls[j].name = decls[k].name }

(***************************************************************************)
(* C1.  For every function whose body type-checks, once tc_script has      *)
(* processed it the slot indices of its stored locals are pairwise         *)
(* distinct and are exactly the range P .. P+n-1, P the number of          *)
(* registered parameters and n the number of stored locals.                *)
(***************************************************************************)
C1_SlotsContiguous ==
    \A i \in FunctionIds :
        Completed("bodies", i) =>
            LET locals == script.functions[i].locals
                stored == Stored(locals.locals)
                P == Len(locals.params)
            IN /\ { locals.locals[k].index[1] : k \in stored } = P..(P + Cardinality(stored) - 1)
               /\ \A j, k \in stored :
                     j # k => locals.locals[j].index[1] # locals.locals[k].index[1]

\* A processed function with parameters, an inline local, and stored locals
\* whose slots are not in arena order.
C1_Witness ==
    \E i \in FunctionIds :
        /\ Completed("bodies", i)
        /\ LET locals == script.functions[i].locals
               stored == Stored(locals.locals)
           IN /\ Len(locals.params) >= 1
              /\ Cardinality(stored) >= 2
              /\ \E k \in 1..Len(locals.locals) : locals.locals[k].index = <<>>
              /\ \E j, k \in stored :
                    j < k /\ locals.locals[j].index[1] > locals.locals[k].index[1]

(***************************************************************************)
(* C2.  After slot assignment, for any two stored locals a and b of one    *)
(* function, if type(a) precedes type(b) in the order i32 < i64 < f32 <    *)
(* f64 then slot(a) < slot(b); so the stored locals of each type occupy    *)
(* one contiguous run of slots.                                            *)
(***************************************************************************)
C2_SlotsOrderedByType ==
    \A i \in FunctionIds :
        Completed("bodies", i) =>
            LET L == script.functions[i].locals.locals
                stored == Stored(L)
            IN /\ \A a, b \in stored :
                     TypeOrd(L[a].type_) < TypeOrd(L[b].type_) => L[a].index[1] < L[b].index[1]
               /\ \A a, b, c \in stored :
                     (/\ L[a].type_ = L[b].type_
                      /\ L[a].index[1] < L[c].index[1]
                      /\ L[c].index[1] < L[b].index[1]) => L[c].type_ = L[a].type_

\* The lets a: i32, b: f32, c: i32 after slot assignment: a and c have the
\* two lowest slots after the parameters, b the next.
C2_Witness ==
    \E i \in FunctionIds :
        /\ Completed("bodies", i)
        /\ LET locals == script.functions[i].locals
               L == locals.locals
               P == Len(locals.params)
           IN /\ Len(L) = 3
              /\ <<L[1].name, L[2].name, L[3].name>> = <<"a", "b", "c">>
              /\ <<L[1].type_, L[2].type_, L[3].type_>> = <<"I32", "F32", "I32">>
              /\ <<L[1].index, L[2].index, L[3].index>> = << <<P>>, <<P + 2>>, <<P + 1>> >>

(***************************************************************************)
(* C3.  A local introduced by an inline let never has a slot index,        *)
(* neither when it is created nor after slot assignment, and every         *)
(* assignment or local-tee whose name resolves to such a local fails with  *)
(* the immutable-assignment error.                                         *)
(***************************************************************************)
InlineLetLocal(f, local) ==
    /\ Len(local.span) > 2
    /\ Node(f, local.span).kind = "Let"
    /\ Node(f, local.span).let_type = "Inline"

C3_InlineLetsHaveNoSlot ==
    \A i \in FunctionIds :
        Visited("bodies", i) =>
            LET f == script.functions[i]
                locals == LocalsOf(i)
            IN /\ \A k \in 1..Len(locals.locals) :
                     InlineLetLocal(f, locals.locals[k]) => locals.locals[k].index = <<>>
               /\ \A s \in DOMAIN f.local_ids :
                     (/\ Node(f, s).kind \in {"Assign", "LocalTee"}
                      /\ InlineLetLocal(f, LocalAt(locals, f.local_ids[s])))
                     => /\ Aborted /\ pc = "bodies" /\ idx = i
                        /\ LastDiag = immutable_assign(s)
                        /\ s \notin DOMAIN f.types

\* An assignment or local-tee resolved to an inline local, in a function
\* that also has a stored local.
C3_Witness ==
    \E i \in FunctionIds :
        /\ Visited("bodies", i)
        /\ LET f == script.functions[i]
               locals == LocalsOf(i)
           IN /\ \E k \in 1..Len(locals.locals) : locals.locals[k].index # <<>>
              /\ \E s \in DOMAIN f.local_ids :
                    /\ Node(f, s).kind \in {"Assign", "LocalTee"}
                    /\ InlineLetLocal(f, LocalAt(locals, f.local_ids[s]))
                    /\ LastDiag = immutable_assign(s)

\* A processed function with an inline local next to stored ones.
C3_WitnessAfterSlots ==
    \E i \in FunctionIds :
        /\ Completed("bodies", i)
        /\ LET f == script.functions[i] IN
           /\ \E k \in 1..Len(f.locals.locals) : InlineLetLocal(f, f.locals.locals[k])
           /\ Cardinality(Stored(f.locals.locals)) >= 2

(***************************************************************************)
(* C4.  As stated: whenever a second global, a second function, or a       *)
(* second let in the same lexical scope declares an already-declared       *)
(* name, tc_script emits a duplicate-definition diagnostic that links both *)
(* declarations' spans.                                                    *)
(*                                                                         *)
(* As the code has it: every registration that is entered for a global     *)
(* variable (imported or declared) or a function (imported or declared)    *)
(* whose name an earlier declaration of that kind has, emits the           *)
(* duplicate-definition diagnostic at its span, with the span of the first *)
(* declaration of the name as the previous definition; a let emits no      *)
(* duplicate-definition diagnostic, whatever the scope binds already.      *)
(***************************************************************************)
\* A duplicate-definition diagnostic at span that links prev_span.
DuplicateReported(span, prev_span) ==
    \E d \in DiagSet :
        /\ d.msg \in DupMsgs
        /\ d.span = span
        /\ \E l \in d.labels : l.span = span
        /\ \E l \in d.labels : l.span = prev_span

\* The pairs <<first, second>> of spans of two lets of one name that are
\* statements of one block of the i-th function, the second checked successfully.
SameScopeLets(i) ==
    LET f == script.functions[i] IN
    UNION { { <<Append(s, j), Append(s, k)>> :
                j \in 1..Len(Node(f, s).statements), k \in 1..Len(Node(f, s).statements) }
            : s \in { n \in BodyNodes(i) : Node(f, n).kind = "Block" } }

RedeclaringLets(i) ==
    LET f == script.functions[i] IN
    { pr \in SameScopeLets(i) :
        /\ pr[1][Len(pr[1])] < pr[2][Len(pr[2])]
        /\ Node(f, pr[1]).kind = "Let"
        /\ Node(f, pr[2]).kind = "Let"
        /\ Node(f, pr[1]).name = Node(f, pr[2]).name
        /\ pr[2] \in DOMAIN f.types }

DuplicateDeclsReported(decls, msg) ==
    \A k \in Repeats(decls) :
        DeclVisited(decls[k].span) =>
            \E d \in DiagSet :
                /\ d.msg = msg
                /\ d.span = decls[k].span
                /\ d.labels = { DiagLabel(decls[k].span, msg, None, <<>>),
                                DiagLabel(FirstDecl(decls, decls[k].name).span,
                                          "Previous definition was here", None, <<>>) }

C4_AsStated ==
    /\ \A k \in Repeats(GlobalDecls(script)) :
          DeclVisited(GlobalDecls(script)[k].span) =>
              \E j \in 1..(k - 1) :
                  /\ GlobalDecls(script)[j].name = GlobalDecls(script)[k].name
                  /\ DuplicateReported(GlobalDecls(script)[k].span, GlobalDecls(script)[j].span)
    /\ \A k \in Repeats(FunctionDecls(script)) :
          DeclVisited(FunctionDecls(script)[k].span) =>
              \E j \in 1..(k - 1) :
                  /\ FunctionDecls(script)[j].name = FunctionDecls(script)[k].name
                  /\ DuplicateReported(FunctionDecls(script)[k].span, FunctionDecls(script)[j].span)
    /\ \A i \in FunctionIds : \A pr \in RedeclaringLets(i) : DuplicateReported(pr[2], pr[1])

C4_DuplicateDeclarations ==
    /\ DuplicateDeclsReported(GlobalDecls(script), "Global already defined")
    /\ DuplicateDeclsReported(FunctionDecls(script), "Function already defined")
    /\ \A d \in DiagSet : d.msg \in DupMsgs => \A l \in d.labels : Len(l.span) = 2
    /\ \A i \in FunctionIds : \A pr \in RedeclaringLets(i) :
          \A d \in DiagSet : d.msg \in DupMsgs => d.span # pr[2] /\ ~DuplicateReported(pr[2], pr[1])

\* The run is over: a repeated function declaration has its diagnostic, and
\* a body with two lets of one name in one block was checked.
C4_Witness ==
    /\ pc = "return"
    /\ \E k \in Repeats(FunctionDecls(script)) :
          DuplicateReported(FunctionDecls(script)[k].span,
                            FirstDecl(FunctionDecls(script), FunctionDecls(script)[k].name).span)
    /\ \E i \in FunctionIds : RedeclaringLets(i) # {}

(***************************************************************************)
(* C5.  When the name of an imported variable, imported function, global   *)
(* variable or function that is being registered is in its symbol table    *)
(* already, the table's entry (type, mutability, signature, span) stays as *)
(* it is: each entry of a table is the one the first declaration of its    *)
(* name made, so every later reference resolves against that one.          *)
(***************************************************************************)
TableIsFirstDecls(table, decls) ==
    /\ DOMAIN table = { decls[k].name : k \in { j \in 1..Len(decls) : DeclCompleted(decls[j].span) } }
    /\ \A name \in DOMAIN table : table[name] = FirstDecl(decls, name).entry

C5_FirstRegistrationStays ==
    /\ TableIsFirstDecls(context.global_vars, GlobalDecls(script))
    /\ TableIsFirstDecls(context.functions, FunctionDecls(script))

\* A second declaration of a name, with another signature or type, has been
\* registered, and so has one of the other table.
C5_Witness ==
    /\ \E k \in Repeats(FunctionDecls(script)) :
          /\ DeclCompleted(FunctionDecls(script)[k].span)
          /\ FunctionDecls(script)[k].entry.params #
                FirstDecl(FunctionDecls(script), FunctionDecls(script)[k].name).entry.params
    /\ \E k \in Repeats(GlobalDecls(script)) :
          /\ DeclCompleted(GlobalDecls(script)[k].span)
          /\ GlobalDecls(script)[k].entry.type_ #
                FirstDecl(GlobalDecls(script), GlobalDecls(script)[k].name).entry.type_

(***************************************************************************)
(* C6.  A branch or conditional branch type-checks with respect to its     *)
(* label if and only if the label names a loop or labeled block that       *)
(* encloses the branch in the same function body; a label does not resolve *)
(* once its loop or labeled block has ended, nor from another function,    *)
(* and an unresolved label fails with the label-not-found error.           *)
(***************************************************************************)
\* The branches of the i-th function whose label the checker has looked up.
LabelLookups(i) ==
    LET f == script.functions[i] IN
    { s \in BodyNodes(i) :
        /\ Node(f, s).kind \in {"Branch", "BranchIf"}
        /\ CameTo(f, s)
        /\ Node(f, s).kind = "BranchIf" =>
              Append(s, 1) \in DOMAIN f.types /\ f.types[Append(s, 1)] = "I32" }

C6_BranchLabels ==
    \A i \in FunctionIds :
        Visited("bodies", i) =>
            LET f == script.functions[i] IN
            \A s \in LabelLookups(i) :
                IF Node(f, s).label \in EnclosingLabels(f, s)
                THEN s \in DOMAIN f.types /\ f.types[s] = None
                ELSE /\ s \notin DOMAIN f.types
                     /\ Aborted /\ pc = "bodies" /\ idx = i
                     /\ LastDiag = Diag("Label not found", s,
                                        { DiagLabel(s, "Label not found", None, <<>>) })

\* A branch to a label fails after a loop or labeled block of that label,
\* with a branch to it inside that type-checked, has ended.
C6_Witness ==
    \E i \in FunctionIds :
        /\ Visited("bodies", i)
        /\ LET f == script.functions[i] IN
           \E s \in LabelLookups(i), t \in LabelLookups(i) :
               /\ Node(f, s).label = Node(f, t).label
               /\ t \in DOMAIN f.types
               /\ s \notin DOMAIN f.types
               /\ LastDiag.msg = "Label not found" /\ LastDiag.span = s

\* A branch in the second function to a label of a loop of the first fails.
C6_WitnessOtherFunction ==
    /\ Len(script.functions) = 2
    /\ Visited("bodies", 2)
    /\ \E s \in LabelLookups(2), t \in BodyNodes(1) :
          /\ Node(script.functions[1], t).kind \in {"Loop", "LabelBlock"}
          /\ Node(script.functions[1], t).label = Node(script.functions[2], s).label
          /\ LastDiag.msg = "Label not found" /\ LastDiag.span = s

(***************************************************************************)
(* C7.  A call whose vector of argument types is the parameter-type vector *)
(* of no candidate signature of its name fails with the no-matching-       *)
(* function error, whose diagnostic has one entry for each candidate; a    *)
(* call whose vector is a candidate's gets that candidate's return type,   *)
(* void when it has none.  The candidates of a name are the signature of   *)
(* the function declared under it, or else the intrinsic's overloads.      *)
(***************************************************************************)
\* The candidate signatures <<parameter types, return type>> of a name.
Candidates(name) ==
    IF \E k \in 1..Len(FunctionDecls(script)) : FunctionDecls(script)[k].name = name
    THEN { << FirstDecl(FunctionDecls(script), name).entry.params,
              FirstDecl(FunctionDecls(script), name).entry.type_ >> }
    ELSE { <<ps, find_types(name)[ps]>> : ps \in DOMAIN find_types(name) }

\* The calls of the i-th function whose arguments have all been checked and
\* have a type.
CallLookups(i) ==
    LET f == script.functions[i] IN
    { s \in BodyNodes(i) :
        /\ Node(f, s).kind = "FuncCall"
        /\ CameTo(f, s)
        /\ CameToChild(f, s, Len(Node(f, s).params) + 1) }

ArgumentTypes(f, s) == [k \in 1..Len(Node(f, s).params) |-> f.types[Append(s, k)]]

C7_CallResolution ==
    \A i \in FunctionIds :
        Visited("bodies", i) =>
            LET f == script.functions[i] IN
            \A s \in CallLookups(i) :
                LET candidates == Candidates(Node(f, s).name)
                    matching == { c \in candidates : c[1] = ArgumentTypes(f, s) }
                IN candidates # {} =>
                      IF matching # {}
                      THEN /\ s \in DOMAIN f.types
                           /\ \A c \in matching : f.types[s] = c[2]
                      ELSE /\ s \notin DOMAIN f.types
                           /\ Aborted /\ pc = "bodies" /\ idx = i
                           /\ LastDiag.msg = "No matching function found"
                           /\ LastDiag.span = s
                           /\ { <<l.params, l.type_>> : l \in LastDiag.labels } = candidates
                           /\ Cardinality(LastDiag.labels) = Cardinality(candidates)

\* A call that matches none of the two or more candidates of its name.
C7_Witness ==
    \E i \in FunctionIds :
        /\ Visited("bodies", i)
        /\ \E s \in CallLookups(i) :
              /\ Cardinality(Candidates(Node(script.functions[i], s).name)) >= 2
              /\ LastDiag.msg = "No matching function found"
              /\ LastDiag.span = s

\* A call resolved to one of several candidates, and one resolved to a
\* function that returns nothing.
C7_WitnessResolved ==
    \E i \in FunctionIds :
        /\ Completed("bodies", i)
        /\ \E s \in CallLookups(i) :
              /\ Cardinality(Candidates(Node(script.functions[i], s).name)) >= 2
              /\ script.functions[i].types[s] # None

(***************************************************************************)
(* C8.  tc_script succeeds on a function only if the type of its body      *)
(* block, the type of the trailing expression or void when there is none,  *)
(* equals the declared return type, absence matching absence:              *)
(* fn add(a: i32, b: i32) -> i32 { a + b } checks with body type i32, and  *)
(* fn bad() -> i32 { 1.0 } fails with a type mismatch that expects i32 and *)
(* finds f32.                                                              *)
(***************************************************************************)
\* The type the checker gave the body of the i-th function.
BodyType(i) == script.functions[i].types[BodySpan(i)]

\* The type of the body block read off its trailing expression.
TrailingType(i) ==
    LET f == script.functions[i] IN
    IF f.body.final_expression.kind = "NoExpr" THEN None
    ELSE f.types[Append(BodySpan(i), Len(f.body.statements) + 1)]

ReturnMismatch(i) ==
    Diag("Type mismatch", BodySpan(i),
         { DiagLabel(FunctionSpan(i), "Expected type", script.functions[i].type_, <<>>),
           DiagLabel(BodySpan(i), "but found type", BodyType(i), <<>>) })

IsAdd(f) ==
    /\ f.params = <<Param("a", "I32"), Param("b", "I32")>>
    /\ f.type_ = "I32"
    /\ f.body = Block(<<>>, BinOp("Add", Variable("a"), Variable("b")))

IsBad(f) ==
    /\ f.params = <<>>
    /\ f.type_ = "I32"
    /\ f.body = Block(<<>>, F32Const)

C8_BodyTypeIsReturnType ==
    \A i \in FunctionIds :
        LET f == script.functions[i] IN
        /\ Completed("bodies", i) =>
              /\ f.body.kind = "Block" => BodyType(i) = TrailingType(i)
              /\ BodyType(i) # f.type_ => result = "Err" /\ ReturnMismatch(i) \in DiagSet
              /\ BodyType(i) = f.type_ => ReturnMismatch(i) \notin DiagSet
              /\ IsAdd(f) /\ Len(f.locals.params) = 2 => BodyType(i) = "I32"
              /\ IsBad(f) => BodyType(i) = "F32" /\ returned # "Ok"
        /\ returned = "Ok" => BodySpan(i) \in DOMAIN f.types /\ BodyType(i) = f.type_

\* fn bad() -> i32 { 1.0 } has failed: expected i32, found f32.
C8_Witness ==
    /\ returned = "Err"
    /\ Len(script.functions) = 1
    /\ IsBad(script.functions[1])
    /\ diags = << Diag("Type mismatch", <<3, 1, 1>>,
                       { DiagLabel(<<3, 1>>, "Expected type", "I32", <<>>),
                         DiagLabel(<<3, 1, 1>>, "but found type", "F32", <<>>) }) >>

\* fn add(a: i32, b: i32) -> i32 { a + b } has checked.
C8_WitnessAdd ==
    /\ returned = "Ok"
    /\ Len(script.functions) = 1
    /\ IsAdd(script.functions[1])
    /\ BodyType(1) = "I32"

(***************************************************************************)
(* C9.  tc_script returns success if and only if no diagnostic was emitted *)
(* during the run: every emitted diagnostic makes the final result a       *)
(* failure (a recorded failure is never reset to success by a later        *)
(* successful check), and every failure result is preceded by at least one *)
(* emitted diagnostic.                                                     *)
(***************************************************************************)
C9_SuccessIffNoDiagnostic ==
    /\ returned # "Pending" => (returned = "Ok" <=> diags = <<>>)
    /\ returned = "Pending" => (result = "Ok" <=> diags = <<>>)
    /\ returned = "Ok" => result = "Ok"

\* The run came to its end with a recorded failure, a function body checked
\* successfully after the diagnostic.
C9_Witness ==
    /\ pc = "return"
    /\ returned = "Err"
    /\ diags # <<>>
    /\ Len(LastDiag.span) = 2
    /\ LastDiag.span[1] \in {1, 2}
    /\ script.functions # <<>>

(***************************************************************************)
(* C10.  As stated: the phases run in order and the checker aborts before  *)
(* the next phase on any error: once a registration step (of an import, a  *)
(* global or a function signature) has recorded an error, no later phase   *)
(* is entered, so no function body is type-checked after a duplicate-      *)
(* definition or a global's type error was reported.                       *)
(*                                                                         *)
(* As the code has it: the phases run in order and a recorded error stops  *)
(* none of them.  tc_script returns before its end only from a constant    *)
(* check or an expression check that failed, inside the globals, the       *)
(* bodies or the data segments; after an error a registration step         *)
(* recorded, the later phases run and the result at the end is a failure.  *)
(***************************************************************************)
\* A registration step has recorded an error.
RegistrationError ==
    \E d \in DiagSet :
        \/ d.msg \in {"Global already defined", "Function already defined"}
        \/ d.msg = "Type mismatch" /\ d.span[1] = 2

C10_AsStated ==
    RegistrationError => \A i \in FunctionIds : script.functions[i].types = EmptyMap

C10_OnlyFailedChecksAbort ==
    /\ Aborted =>
          /\ pc \in {"globals", "bodies", "data"}
          /\ Len(LastDiag.span) > 2
          /\ pc \in {"globals", "data"} => LastDiag.msg = "Expected constant value"
          /\ pc = "globals" => LastDiag.span = <<2, idx, 1>>
          /\ pc = "bodies" => LastDiag.span[1] = 3 /\ LastDiag.span[2] = idx
    /\ pc = "return" =>
          /\ \A i \in FunctionIds : BodySpan(i) \in DOMAIN script.functions[i].types
          /\ returned = "Err" => result = "Err"
    /\ RegistrationError /\ returned # "Pending" => returned = "Err"

\* A registration step recorded an error, the bodies were checked after it
\* and the run came to its end.
C10_Witness ==
    /\ RegistrationError
    /\ pc = "return"
    /\ returned = "Err"
    /\ \E i \in FunctionIds : BodySpan(i) \in DOMAIN script.functions[i].types

(***************************************************************************)
(* C11.  Declaration-level checks are batched: provided no constant or     *)
(* expression check fails, a duplicate name on an import, global or        *)
(* function, or an invalid start function, does not stop the loop it       *)
(* occurs in, so every offending declaration of the script has its own     *)
(* diagnostic when tc_script is done.                                      *)
(***************************************************************************)
\* The functions that carry the start flag, and the first of them.
StartFlagged == { i \in FunctionIds : script.functions[i].start }

FirstStart == CHOOSE i \in StartFlagged : \A j \in StartFlagged : i <= j

\* The start-flagged functions with a parameter or a return type.
InvalidStarts ==
    { i \in StartFlagged :
        script.functions[i].params # <<>> \/ script.functions[i].type_ # None }

\* The diagnostics with a message at a span.
DiagsAt(msg, span) == { k \in 1..Len(diags) : diags[k].msg = msg /\ diags[k].span = span }

DiagsOf(msg) == { k \in 1..Len(diags) : diags[k].msg = msg }

StartInvalidMsg == "Start function can't have params or a return value"

C11_DeclarationChecksBatched ==
    /\ Aborted => pc \notin {"imports", "signatures", "start"}
    /\ pc = "return" =>
          /\ \A k \in Repeats(GlobalDecls(script)) :
                Cardinality(DiagsAt("Global already defined", GlobalDecls(script)[k].span)) = 1
          /\ Cardinality(DiagsOf("Global already defined")) =
                Cardinality(Repeats(GlobalDecls(script)))
          /\ \A k \in Repeats(FunctionDecls(script)) :
                Cardinality(DiagsAt("Function already defined", FunctionDecls(script)[k].span)) = 1
          /\ Cardinality(DiagsOf("Function already defined")) =
                Cardinality(Repeats(FunctionDecls(script)))
          /\ \A i \in StartFlagged :
                /\ Cardinality(DiagsAt(StartInvalidMsg, FunctionSpan(i))) =
                      (IF i \in InvalidStarts THEN 1 ELSE 0)
                /\ Cardinality(DiagsAt("Start function already defined", FunctionSpan(i))) =
                      (IF i # FirstStart THEN 1 ELSE 0)
                /\ i # FirstStart =>
                      \E l \in diags[CHOOSE k \in DiagsAt("Start function already defined",
                                                       FunctionSpan(i)) : TRUE].labels :
                          l.span = FunctionSpan(FirstStart)

\* The run is done with two repeated function declarations reported, the
\* second of them an invalid start function that is also a second start function.
C11_Witness ==
    /\ pc = "return"
    /\ Cardinality(DiagsOf("Function already defined")) >= 2
    /\ \E i \in InvalidStarts :
          /\ i # FirstStart
          /\ DiagsAt("Function already defined", FunctionSpan(i)) # {}
          /\ DiagsAt(StartInvalidMsg, FunctionSpan(i)) # {}
          /\ DiagsAt("Start function already defined", FunctionSpan(i)) # {}

(***************************************************************************)
(* C12.  A variable read resolves to the binding of the name in the        *)
(* innermost active scope that contains it, and to the global variable     *)
(* table only when no active scope binds the name; the node's type is the  *)
(* type of the binding so found, and a name found nowhere fails with the   *)
(* unknown-variable error.                                                 *)
(***************************************************************************)
IsPrefix(p, s) == Len(p) <= Len(s) /\ SubSeq(s, 1, Len(p)) = p

\* The node at span a is checked before the node at span b, neither an
\* ancestor of the other: children are checked in order.
SpanBefore(a, b) ==
    \E m \in 1..Len(a) :
        /\ m <= Len(b)
        /\ SubSeq(a, 1, m - 1) = SubSeq(b, 1, m - 1)
        /\ a[m] < b[m]

\* The blocks of the body of f that enclose the node at span.
EnclosingBlocks(f, span) ==
    { p \in { SubSeq(span, 1, n) : n \in 3..(Len(span) - 1) } : Node(f, p).kind = "Block" }

\* The lets of a name that are checked before the node at span and whose
\* innermost enclosing block is the block at b: the bindings of the name
\* in the scope of b when the checker comes to the node.
ScopeLets(i, b, name, span) ==
    LET f == script.functions[i] IN
    { l \in BodyNodes(i) :
        /\ Node(f, l).kind = "Let" /\ Node(f, l).name = name
        /\ SpanBefore(l, span)
        /\ b \in EnclosingBlocks(f, l)
        /\ \A p \in EnclosingBlocks(f, l) : Len(p) <= Len(b) }

\* The type a checked let gives its local.
LetLocalType(f, l) ==
    IF Node(f, l).type_ # None THEN Node(f, l).type_ ELSE f.types[Append(l, 1)]

\* The parameters of f that are bound in the function's scope: the first of
\* each name, unless a global variable has the name.
BoundParams(f) ==
    { k \in 1..Len(f.params) :
        /\ \A j \in 1..(k - 1) : f.params[j].name # f.params[k].name
        /\ f.params[k].name \notin DOMAIN context.global_vars }

\* The binding a use of name at span resolves to by the scope rule, as
\* <<type, stored>>: the latest let of the innermost block that has one,
\* else the parameter; empty if no scope binds the name.
ScopeBinder(i, name, span) ==
    LET f == script.functions[i]
        binders == { b \in EnclosingBlocks(f, span) : ScopeLets(i, b, name, span) # {} }
    IN IF binders # {}
       THEN LET b == CHOOSE c \in binders : \A d \in binders : Len(d) <= Len(c)
                l == CHOOSE m \in ScopeLets(i, b, name, span) :
                        \A n \in ScopeLets(i, b, name, span) : n = m \/ SpanBefore(n, m)
            IN { <<LetLocalType(f, l), Node(f, l).let_type # "Inline">> }
       ELSE { <<f.params[k].type_, TRUE>> :
                k \in { j \in BoundParams(f) : f.params[j].name = name } }

\* The type of that binding.
ScopeBinding(i, name, span) == { b[1] : b \in ScopeBinder(i, name, span) }

\* The variable reads of the i-th function that the checker came to.
VariableReads(i) ==
    { s \in BodyNodes(i) :
        Node(script.functions[i], s).kind = "Variable" /\ CameTo(script.functions[i], s) }

C12_VariableResolution ==
    \A i \in FunctionIds :
        Visited("bodies", i) =>
            LET f == script.functions[i] IN
            \A s \in VariableReads(i) :
                LET name == Node(f, s).name
                    binding == ScopeBinding(i, name, s)
                IN IF binding # {}
                   THEN /\ s \in DOMAIN f.types /\ {f.types[s]} = binding
                        /\ s \in DOMAIN f.local_ids
                        /\ LocalAt(LocalsOf(i), f.local_ids[s]).name = name
                        /\ {LocalAt(LocalsOf(i), f.local_ids[s]).type_} = binding
                   ELSE IF name \in DOMAIN context.global_vars
                   THEN /\ s \in DOMAIN f.types
                        /\ f.types[s] = context.global_vars[name].type_
                        /\ s \notin DOMAIN f.local_ids
                   ELSE /\ s \notin DOMAIN f.types
                        /\ Aborted /\ pc = "bodies" /\ idx = i
                        /\ LastDiag = Diag("Unknown variable", s,
                                           { DiagLabel(s, "Unknown variable", None, <<>>) })

\* A read inside an inner block took the inner let's type, and a later read
\* of the same name in the outer block took the outer let's type, a global
\* variable of the name notwithstanding.
C12_Witness ==
    /\ Len(script.functions) = 1 /\ Visited("bodies", 1)
    /\ "x" \in DOMAIN context.global_vars
    /\ LET f == script.functions[1] IN
       \E s \in VariableReads(1), t \in VariableReads(1) :
           /\ Node(f, s).name = "x" /\ Node(f, t).name = "x"
           /\ Len(s) > Len(t) /\ SpanBefore(s, t)
           /\ s \in DOMAIN f.types /\ t \in DOMAIN f.types
           /\ f.types[s] = "F32" /\ f.types[t] = "I32"
           /\ context.global_vars["x"].type_ = "I64"

\* A read of a name that only the global table holds took the global's type,
\* the function's parameter of that name having been rejected.
C12_WitnessGlobal ==
    /\ Len(script.functions) = 1 /\ Visited("bodies", 1)
    /\ LET f == script.functions[1] IN
       \E s \in VariableReads(1) :
           /\ Len(f.params) = 1 /\ f.params[1].name = Node(f, s).name
           /\ ScopeBinding(1, Node(f, s).name, s) = {}
           /\ s \in DOMAIN f.types /\ f.types[s] = "I64"

\* A read of a name bound nowhere failed.
C12_WitnessUnknown ==
    /\ Aborted
    /\ LastDiag.msg = "Unknown variable"
    /\ \E i \in FunctionIds : \E s \in VariableReads(i) :
          LastDiag.span = s /\ Node(script.functions[i], s).name = "y"

(***************************************************************************)
(* C13.  Before the first function body is type-checked the function table *)
(* holds the signature of every imported function and of every user        *)
(* function of the script, the first declaration of each name, wherever it *)
(* is declared; hence a call to a function declared later in the file, or  *)
(* two functions calling each other, resolves against the declared         *)
(* signatures.                                                             *)
(***************************************************************************)
DeclaredFunctionNames ==
    { FunctionDecls(script)[k].name : k \in 1..Len(FunctionDecls(script)) }

\* The calls of the i-th function, their arguments checked, to a name whose
\* first declaration is the j-th function of the script.
CallsTo(i, j) ==
    { s \in CallLookups(i) :
        /\ Node(script.functions[i], s).name = script.functions[j].name
        /\ FirstDecl(FunctionDecls(script), script.functions[j].name).span = FunctionSpan(j) }

DeclaredParams(j) ==
    [k \in 1..Len(script.functions[j].params) |-> script.functions[j].params[k].type_]

C13_SignaturesBeforeBodies ==
    /\ pc \in {"bodies", "start", "data", "return"} =>
          /\ DOMAIN context.functions = DeclaredFunctionNames
          /\ \A name \in DeclaredFunctionNames :
                context.functions[name] = FirstDecl(FunctionDecls(script), name).entry
    /\ \A i \in FunctionIds : \A j \in FunctionIds :
          (pc \in {"bodies", "start", "data", "return"}
             /\ (pc = "bodies" => i < idx \/ (i = idx /\ returned # "Pending"))) =>
             LET f == script.functions[i] IN
             \A s \in CallsTo(i, j) :
                 IF ArgumentTypes(f, s) = DeclaredParams(j)
                 THEN s \in DOMAIN f.types /\ f.types[s] = script.functions[j].type_
                 ELSE /\ s \notin DOMAIN f.types
                      /\ Aborted /\ pc = "bodies" /\ idx = i
                      /\ LastDiag.msg = "No matching function found"
                      /\ LastDiag.span = s
                      /\ LastDiag.labels =
                            { DiagLabel(s, "Found", script.functions[j].type_,
                                        DeclaredParams(j)) }

\* Two functions that call each other were both checked, each call typed
\* with the other function's return type.
C13_Witness ==
    /\ pc = "return" /\ returned = "Pending" /\ result = "Ok"
    /\ \E i \in FunctionIds, j \in FunctionIds :
          /\ i < j
          /\ \E s \in CallsTo(i, j) : script.functions[i].types[s] = script.functions[j].type_
          /\ \E t \in CallsTo(j, i) : script.functions[j].types[t] = script.functions[i].type_
          /\ script.functions[j].type_ # script.functions[i].type_

\* A call to a function declared later failed on the later function's
\* signature.
C13_WitnessForwardMismatch ==
    /\ Aborted /\ LastDiag.msg = "No matching function found"
    /\ \E i \in FunctionIds, j \in FunctionIds :
          i < j /\ \E s \in CallsTo(i, j) : LastDiag.span = s

(***************************************************************************)
(* C14.  tc_script succeeds only if at most one function carries the start *)
(* flag and that function has no parameters and no return type; a start    *)
(* function with a parameter or a return type, or a second start-flagged   *)
(* function, makes the result a failure.                                   *)
(***************************************************************************)
C14_StartFunction ==
    /\ returned = "Ok" => Cardinality(StartFlagged) <= 1 /\ InvalidStarts = {}
    /\ \A i \in StartFlagged :
          Completed("start", i) =>
              /\ i \in InvalidStarts \/ i # FirstStart => result = "Err" /\ returned # "Ok"
              /\ start_function = <<FirstStart>>
    /\ StartFlagged = {} => start_function = <<>>

\* tc_script succeeded on a script with one start function and another
\* function that has parameters and a return type.
C14_Witness ==
    /\ returned = "Ok"
    /\ Cardinality(StartFlagged) = 1
    /\ \E i \in FunctionIds :
          script.functions[i].params # <<>> /\ script.functions[i].type_ # None

\* tc_script failed with one diagnostic, for a start function that has a
\* return type and no parameter.
C14_WitnessReturnType ==
    /\ returned = "Err" /\ pc = "return"
    /\ Len(diags) = 1 /\ diags[1].msg = StartInvalidMsg
    /\ \E i \in InvalidStarts :
          script.functions[i].params = <<>> /\ diags[1].span = FunctionSpan(i)

\* tc_script failed with one diagnostic, for a second start function.
C14_WitnessSecond ==
    /\ returned = "Err" /\ pc = "return"
    /\ Len(diags) = 1 /\ diags[1].msg = "Start function already defined"
    /\ Cardinality(StartFlagged) = 2 /\ InvalidStarts = {}

(***************************************************************************)
(* C15.  For each non-duplicate global declaration, the initializer must   *)
(* be one of the four literal-constant node kinds, anything else being an  *)
(* expected-constant error; if the declaration carries an explicit type,   *)
(* that type must equal the initializer's type or a type mismatch is       *)
(* recorded, and if it carries none the global's registered type is the    *)
(* initializer's type.  Stated of every step of the loop over the global   *)
(* declarations: the declaration is read before the step, the table and    *)
(* the diagnostics after it.                                               *)
(***************************************************************************)
\* The type of a literal node, by its kind.
LiteralTypes ==
    { <<"I32Const", "I32">>, <<"I64Const", "I64">>, <<"F32Const", "F32">>, <<"F64Const", "F64">> }

C15_GlobalInitializers ==
    [][ pc = "globals" /\ returned = "Pending"
          /\ script.global_vars[idx].name \notin DOMAIN context.global_vars =>
        LET v == script.global_vars[idx]
            span == GlobalSpan(idx)
            literal == { l \in LiteralTypes : l[1] = v.value.kind }
        IN IF literal = {}
           THEN /\ returned' = "Err" /\ pc' = pc /\ idx' = idx
                /\ diags' = Append(diags,
                        Diag("Expected constant value", Append(span, 1),
                             { DiagLabel(Append(span, 1), "Expected constant value", None, <<>>) }))
                /\ context' = context /\ script' = script
           ELSE \A l \in literal :
                /\ returned' = "Pending"
                /\ v.name \in DOMAIN context'.global_vars
                /\ context'.global_vars[v.name].span = span
                /\ context'.global_vars[v.name].mutable = v.mutable
                /\ IF v.type_ = None
                   THEN /\ diags' = diags /\ result' = result
                        /\ context'.global_vars[v.name].type_ = l[2]
                        /\ script'.global_vars[idx].type_ = l[2]
                   ELSE IF v.type_ = l[2]
                   THEN /\ diags' = diags /\ result' = result
                        /\ context'.global_vars[v.name].type_ = l[2]
                   ELSE /\ result' = "Err"
                        /\ diags' = Append(diags,
                              Diag("Type mismatch", Append(span, 1),
                                   { DiagLabel(span, "Expected type", v.type_, <<>>),
                                     DiagLabel(Append(span, 1), "but found type", l[2], <<>>) }))
                        /\ context'.global_vars[v.name].type_ = v.type_ ]_vars

\* All global declarations were registered: one took its initializer's type,
\* and one whose declared type is not its initializer's was reported.
C15_Witness ==
    /\ Completed("globals", Len(script.global_vars))
    /\ \E k \in 1..Len(script.global_vars), j \in 1..Len(script.global_vars) :
          /\ script.global_vars[j].value.kind = "I32Const"
          /\ script.global_vars[j].name \in DOMAIN context.global_vars
          /\ context.global_vars[script.global_vars[j].name] =
                Var(GlobalSpan(j), "I32", script.global_vars[j].mutable)
          /\ script.global_vars[k].value.kind = "F32Const"
          /\ context.global_vars[script.global_vars[k].name] =
                Var(GlobalSpan(k), "I32", script.global_vars[k].mutable)
          /\ \E d \in DiagSet : d.msg = "Type mismatch" /\ d.span = Append(GlobalSpan(k), 1)

\* A global declaration whose initializer is no literal ended the run.
C15_WitnessNotConstant ==
    /\ Aborted /\ pc = "globals"
    /\ script.global_vars[idx].value.kind \notin ConstKinds
    /\ LastDiag.msg = "Expected constant value"

(***************************************************************************)
(* C16.  A return expression type-checks if and only if its value's type,  *)
(* or the absence of a value, equals the enclosing function's declared     *)
(* return type, or its absence: a return with a value of another type, a   *)
(* return with a value in a function without return type, and a return     *)
(* without a value in a function that declares a return type all fail with *)
(* a type mismatch; the return node itself is void.                        *)
(*                                                                         *)
(* The code compares the two only when the return has a value: a return    *)
(* without a value is accepted in every function.                          *)
(***************************************************************************)
\* The nodes of a kind in the i-th function whose children have all been
\* checked.
CheckedChildren(i, kind) ==
    LET f == script.functions[i] IN
    { s \in BodyNodes(i) :
        /\ Node(f, s).kind = kind
        /\ CameTo(f, s)
        /\ CameToChild(f, s, ChildCount(Node(f, s)) + 1) }

\* The type of what a return returns: its value's type, void without value.
ReturnedType(f, s) ==
    IF Node(f, s).value.kind # "NoExpr" THEN f.types[Append(s, 1)] ELSE None

C16_AsStated ==
    \A i \in FunctionIds :
        Visited("bodies", i) =>
            LET f == script.functions[i] IN
            \A s \in CheckedChildren(i, "Return") :
                IF ReturnedType(f, s) = f.type_
                THEN s \in DOMAIN f.types /\ f.types[s] = None
                ELSE /\ s \notin DOMAIN f.types
                     /\ Aborted /\ pc = "bodies" /\ idx = i
                     /\ LastDiag.msg = "Type mismatch"

\* What the code does: the claim's rule for a return that has a value, and
\* no check at all for one that has none.
C16_ValueReturnsChecked ==
    \A i \in FunctionIds :
        Visited("bodies", i) =>
            LET f == script.functions[i] IN
            \A s \in CheckedChildren(i, "Return") :
                IF Node(f, s).value.kind = "NoExpr" \/ ReturnedType(f, s) = f.type_
                THEN s \in DOMAIN f.types /\ f.types[s] = None
                ELSE /\ s \notin DOMAIN f.types
                     /\ Aborted /\ pc = "bodies" /\ idx = i
                     /\ LastDiag =
                           Diag("Type mismatch", Append(s, 1),
                                { DiagLabel(s, "Expected type", f.type_, <<>>),
                                  DiagLabel(Append(s, 1), "but found type",
                                            ReturnedType(f, s), <<>>) })

\* tc_script returned Ok on a function that declares a return type and has
\* a return without a value.
C16_BareReturnAccepted ==
    /\ returned = "Ok"
    /\ \E i \in FunctionIds : \E s \in CheckedChildren(i, "Return") :
          /\ Node(script.functions[i], s).value.kind = "NoExpr"
          /\ script.functions[i].type_ # None
          /\ diags = <<>>

(***************************************************************************)
(* C17.  For if/else: when an else branch exists the two branches must     *)
(* have the same type, both void counting as equal, and that type is the   *)
(* node's type, otherwise a type mismatch is reported; when there is no    *)
(* else branch the node's type is void whatever the then-branch's type.    *)
(***************************************************************************)
C17_IfElse ==
    \A i \in FunctionIds :
        Visited("bodies", i) =>
            LET f == script.functions[i] IN
            \A s \in CheckedChildren(i, "If") :
                LET then_type == f.types[Append(s, 2)] IN
                IF Node(f, s).if_false.kind = "NoExpr"
                THEN s \in DOMAIN f.types /\ f.types[s] = None
                ELSE LET else_type == f.types[Append(s, 3)] IN
                     IF then_type = else_type
                     THEN s \in DOMAIN f.types /\ f.types[s] = then_type
                     ELSE /\ s \notin DOMAIN f.types
                          /\ Aborted /\ pc = "bodies" /\ idx = i
                          /\ LastDiag =
                                Diag("Type mismatch", Append(s, 3),
                                     { DiagLabel(Append(s, 2), "Expected type", then_type, <<>>),
                                       DiagLabel(Append(s, 3), "but found type", else_type, <<>>) })

\* An if without else whose then-branch has a type was typed void.
C17_Witness ==
    \E i \in FunctionIds :
        /\ Completed("bodies", i)
        /\ \E s \in CheckedChildren(i, "If") :
              /\ Node(script.functions[i], s).if_false.kind = "NoExpr"
              /\ script.functions[i].types[Append(s, 2)] = "F32"
              /\ script.functions[i].types[s] = None

\* An if whose branches are both void was typed void, its condition not i32.
C17_WitnessBothVoid ==
    \E i \in FunctionIds :
        /\ Completed("bodies", i)
        /\ \E s \in CheckedChildren(i, "If") :
              /\ Node(script.functions[i], s).if_false.kind # "NoExpr"
              /\ script.functions[i].types[Append(s, 1)] # "I32"
              /\ script.functions[i].types[Append(s, 2)] = None
              /\ script.functions[i].types[Append(s, 3)] = None
              /\ script.functions[i].types[s] = None

\* An if whose then-branch is void and whose else-branch is not failed.
C17_WitnessMismatch ==
    /\ Aborted /\ LastDiag.msg = "Type mismatch"
    /\ \E i \in FunctionIds : \E s \in CheckedChildren(i, "If") :
          /\ LastDiag.span = Append(s, 3)
          /\ script.functions[i].types[Append(s, 2)] = None

(***************************************************************************)
(* C18.  A let type-checks exactly in these cases: initializer present     *)
(* with a declared type equal to the initializer's type; initializer       *)
(* present, non-void, with no declared type, the local then taking the     *)
(* initializer's type; or no initializer with a declared type.  A let with *)
(* neither type nor initializer fails with the missing-type error, a void  *)
(* initializer fails, and a successful let node is itself void.            *)
(***************************************************************************)
C18_LetCases ==
    \A i \in FunctionIds :
        Visited("bodies", i) =>
            LET f == script.functions[i] IN
            \A s \in CheckedChildren(i, "Let") :
                LET let == Node(f, s)
                    has_value == let.value.kind # "NoExpr"
                    value_type == IF has_value THEN f.types[Append(s, 1)] ELSE None
                IN IF \/ has_value /\ let.type_ # None /\ let.type_ = value_type
                      \/ has_value /\ let.type_ = None /\ value_type # None
                      \/ ~has_value /\ let.type_ # None
                   THEN /\ s \in DOMAIN f.types /\ f.types[s] = None
                        /\ s \in DOMAIN f.local_ids
                        /\ LET local == LocalAt(LocalsOf(i), f.local_ids[s]) IN
                           /\ local.name = let.name
                           /\ local.type_ = (IF let.type_ # None THEN let.type_ ELSE value_type)
                           /\ (local.index = <<>>) = (let.let_type = "Inline")
                   ELSE /\ s \notin DOMAIN f.types
                        /\ Aborted /\ pc = "bodies" /\ idx = i
                        /\ LastDiag =
                              IF ~has_value
                              THEN Diag("Type missing", s,
                                        { DiagLabel(s, "Type missing", None, <<>>) })
                              ELSE IF let.type_ # None
                              THEN Diag("Type mismatch", Append(s, 1),
                                        { DiagLabel(s, "Expected type", let.type_, <<>>),
                                          DiagLabel(Append(s, 1), "but found type",
                                                    value_type, <<>>) })
                              ELSE Diag("Expected value but found expression of type void",
                                        Append(s, 1),
                                        { DiagLabel(Append(s, 1),
                                            "Expected value but found expression of type void",
                                            None, <<>>) })

\* A let without declared type took its initializer's type, f32.
C18_Witness ==
    \E i \in FunctionIds :
        /\ Completed("bodies", i)
        /\ \E s \in CheckedChildren(i, "Let") :
              LET f == script.functions[i] IN
              /\ Node(f, s).type_ = None
              /\ s \in DOMAIN f.local_ids
              /\ LocalAt(f.locals, f.local_ids[s]).type_ = "F32"
              /\ f.types[Append(s, 1)] = "F32"

\* A let with a declared type and a void initializer failed.
C18_WitnessVoidInitializer ==
    /\ Aborted /\ LastDiag.msg = "Type mismatch"
    /\ \E i \in FunctionIds : \E s \in CheckedChildren(i, "Let") :
          /\ LastDiag.span = Append(s, 1)
          /\ script.functions[i].types[Append(s, 1)] = None

\* A let with neither type nor initializer failed.
C18_WitnessTypeMissing ==
    /\ Aborted /\ LastDiag.msg = "Type missing"
    /\ \E i \in FunctionIds : \E s \in CheckedChildren(i, "Let") :
          LastDiag.span = s /\ Node(script.functions[i], s).value.kind = "NoExpr"

(***************************************************************************)
(* C19.  A binary operation requires both operands to have the same        *)
(* non-void type; its result is the operand type for add/sub/mul/div, the  *)
(* operand type for rem/bitwise/shift/unsigned div-rem but only when that  *)
(* type is i32 or i64, i32 for the comparisons ==, !=, <, <=, >, >=        *)
(* whatever the operand type, and i32 for the unsigned comparisons but     *)
(* only when the operand type is i32 or i64; every other combination is a  *)
(* type error.                                                             *)
(***************************************************************************)
\* The result types of an operator on two operands of one type: one type,
\* or none when the operator does not take the type.
BinOpResult(op, type_) ==
    CASE op \in {"Add", "Sub", "Mul", "Div"} -> {type_}
      [] op \in {"Rem", "And", "Or", "Xor", "Shl", "ShrU", "ShrS", "DivU", "RemU"} ->
            {type_} \cap {"I32", "I64"}
      [] op \in {"Eq", "Ne", "Lt", "Le", "Gt", "Ge"} -> {"I32"}
      [] op \in {"LtU", "LeU", "GtU", "GeU"} -> IF type_ \in {"I32", "I64"} THEN {"I32"} ELSE {}

C19_BinaryOperations ==
    \A i \in FunctionIds :
        Visited("bodies", i) =>
            LET f == script.functions[i] IN
            \A s \in CheckedChildren(i, "BinOp") :
                LET left == f.types[Append(s, 1)]
                    right == f.types[Append(s, 2)]
                    results == IF left # None /\ left = right
                               THEN BinOpResult(Node(f, s).op, left) ELSE {}
                IN IF results # {}
                   THEN s \in DOMAIN f.types /\ {f.types[s]} = results
                   ELSE /\ s \notin DOMAIN f.types
                        /\ Aborted /\ pc = "bodies" /\ idx = i
                        /\ LastDiag =
                              IF left = None
                              THEN Diag("Expected value but found expression of type void",
                                        Append(s, 1),
                                        { DiagLabel(Append(s, 1),
                                            "Expected value but found expression of type void",
                                            None, <<>>) })
                              ELSE IF left # right
                              THEN Diag("Type mismatch", Append(s, 2),
                                        { DiagLabel(Append(s, 1), "Expected type", left, <<>>),
                                          DiagLabel(Append(s, 2), "but found type", right, <<>>) })
                              ELSE Diag("Type mismatch", Append(s, 1),
                                        { DiagLabel(Append(s, 1), "Expected type", "I32", <<>>),
                                          DiagLabel(Append(s, 1), "but found type", left, <<>>) })

\* A comparison of two f64 operands was typed i32.
C19_Witness ==
    \E i \in FunctionIds :
        /\ Completed("bodies", i)
        /\ \E s \in CheckedChildren(i, "BinOp") :
              LET f == script.functions[i] IN
              /\ Node(f, s).op = "Le"
              /\ f.types[Append(s, 1)] = "F64" /\ f.types[Append(s, 2)] = "F64"
              /\ f.types[s] = "I32"

\* A shift of two i64 operands was typed i64.
C19_WitnessShift ==
    \E i \in FunctionIds :
        /\ Completed("bodies", i)
        /\ \E s \in CheckedChildren(i, "BinOp") :
              LET f == script.functions[i] IN
              /\ Node(f, s).op = "ShrU"
              /\ f.types[Append(s, 1)] = "I64" /\ f.types[s] = "I64"

\* An unsigned comparison of two f32 operands failed.
C19_WitnessUnsignedFloat ==
    /\ Aborted /\ LastDiag.msg = "Type mismatch"
    /\ \E i \in FunctionIds : \E s \in CheckedChildren(i, "BinOp") :
          LET f == script.functions[i] IN
          /\ Node(f, s).op = "GeU"
          /\ f.types[Append(s, 1)] = "F32" /\ f.types[Append(s, 2)] = "F32"
          /\ LastDiag.span = Append(s, 1)

(***************************************************************************)
(* C20.  An assignment type-checks if and only if its target name resolves *)
(* (scope chain first, then globals) to a stored local or to a mutable     *)
(* global and the value's type equals the target's type; a target          *)
(* resolving to a non-mutable global fails with immutable-assignment, an   *)
(* unresolved target with unknown-identifier, and a local binding hides a  *)
(* global of the same name even when the global is mutable and the local   *)
(* is not assignable.                                                      *)
(***************************************************************************)
ImmutableAssign(s) ==
    Diag("Trying to assign to immutable variable", s,
         { DiagLabel(s, "Trying to assign to immutable variable", None, <<>>) })

\* The outcome of the assignment at s to a target of a type declared at a
\* span: void when the value has the target's type, a type mismatch if not.
AssignedOrMismatch(i, s, target_type, target_span) ==
    LET f == script.functions[i]
        value_type == f.types[Append(s, 1)]
    IN IF value_type = target_type
       THEN s \in DOMAIN f.types /\ f.types[s] = None
       ELSE /\ s \notin DOMAIN f.types
            /\ Aborted /\ pc = "bodies" /\ idx = i
            /\ LastDiag = Diag("Type mismatch", Append(s, 1),
                               { DiagLabel(target_span, "Expected type", target_type, <<>>),
                                 DiagLabel(Append(s, 1), "but found type", value_type, <<>>) })

AssignFails(i, s, diag) ==
    /\ s \notin DOMAIN script.functions[i].types
    /\ Aborted /\ pc = "bodies" /\ idx = i
    /\ LastDiag = diag

C20_Assignments ==
    \A i \in FunctionIds :
        Visited("bodies", i) =>
            LET f == script.functions[i] IN
            \A s \in CheckedChildren(i, "Assign") :
                LET name == Node(f, s).name
                    binder == ScopeBinder(i, name, s)
                IN IF binder # {}
                   THEN /\ s \in DOMAIN f.local_ids
                        /\ LocalAt(LocalsOf(i), f.local_ids[s]).name = name
                        /\ \A b \in binder :
                              IF b[2]
                              THEN AssignedOrMismatch(i, s, b[1],
                                        LocalAt(LocalsOf(i), f.local_ids[s]).span)
                              ELSE AssignFails(i, s, ImmutableAssign(s))
                   ELSE /\ s \notin DOMAIN f.local_ids
                        /\ IF name \notin DOMAIN context.global_vars
                           THEN AssignFails(i, s,
                                    Diag("Unknown variable", s,
                                         { DiagLabel(s, "Unknown variable", None, <<>>) }))
                           ELSE IF ~context.global_vars[name].mutable
                           THEN AssignFails(i, s, ImmutableAssign(s))
                           ELSE AssignedOrMismatch(i, s, context.global_vars[name].type_,
                                                   context.global_vars[name].span)

\* An assignment of a value of the global's type failed as immutable: an
\* inline local of the name hides the mutable global.
C20_Witness ==
    /\ Aborted /\ LastDiag.msg = "Trying to assign to immutable variable"
    /\ \E i \in FunctionIds : \E s \in CheckedChildren(i, "Assign") :
          LET f == script.functions[i] IN
          /\ LastDiag.span = s
          /\ ScopeBinder(i, Node(f, s).name, s) # {}
          /\ Node(f, s).name \in DOMAIN context.global_vars
          /\ context.global_vars[Node(f, s).name].mutable
          /\ context.global_vars[Node(f, s).name].type_ = f.types[Append(s, 1)]

\* An assignment to a stored local that hides an immutable global was
\* checked.
C20_WitnessAssigned ==
    \E i \in FunctionIds :
        /\ Completed("bodies", i)
        /\ \E s \in CheckedChildren(i, "Assign") :
              LET f == script.functions[i] IN
              /\ s \in DOMAIN f.types
              /\ Node(f, s).name \in DOMAIN context.global_vars
              /\ ScopeBinder(i, Node(f, s).name, s) # {}
              /\ ~context.global_vars[Node(f, s).name].mutable

\* An assignment to an immutable global failed.
C20_WitnessImmutableGlobal ==
    /\ Aborted /\ LastDiag.msg = "Trying to assign to immutable variable"
    /\ \E i \in FunctionIds : \E s \in CheckedChildren(i, "Assign") :
          LET f == script.functions[i] IN
          /\ LastDiag.span = s
          /\ ScopeBinder(i, Node(f, s).name, s) = {}
          /\ ~context.global_vars[Node(f, s).name].mutable

(***************************************************************************)
(* C21.  A local-tee type-checks only when its target name resolves in the *)
(* local scope chain to a stored local whose type equals the value's type, *)
(* and then the node's type is that local's type; a name that is bound     *)
(* only as a global variable, mutable or not, is rejected with the         *)
(* unknown-identifier error.                                               *)
(***************************************************************************)
C21_LocalTee ==
    \A i \in FunctionIds :
        Visited("bodies", i) =>
            LET f == script.functions[i] IN
            \A s \in CheckedChildren(i, "LocalTee") :
                LET name == Node(f, s).name
                    binder == ScopeBinder(i, name, s)
                    value_type == f.types[Append(s, 1)]
                IN IF binder = {}
                   THEN /\ s \notin DOMAIN f.local_ids
                        /\ AssignFails(i, s,
                               Diag("Unknown variable", s,
                                    { DiagLabel(s, "Unknown variable", None, <<>>) }))
                   ELSE /\ s \in DOMAIN f.local_ids
                        /\ LocalAt(LocalsOf(i), f.local_ids[s]).name = name
                        /\ \A b \in binder :
                              IF ~b[2] THEN AssignFails(i, s, ImmutableAssign(s))
                              ELSE IF value_type = b[1]
                              THEN s \in DOMAIN f.types /\ f.types[s] = b[1]
                              ELSE AssignFails(i, s,
                                      Diag("Type mismatch", Append(s, 1),
                                           { DiagLabel(LocalAt(LocalsOf(i), f.local_ids[s]).span,
                                                       "Expected type", b[1], <<>>),
                                             DiagLabel(Append(s, 1), "but found type",
                                                       value_type, <<>>) }))

\* A local-tee to a name that only the global table holds, the global
\* mutable and of the value's type, failed with the unknown-variable error.
C21_Witness ==
    /\ Aborted /\ LastDiag.msg = "Unknown variable"
    /\ \E i \in FunctionIds : \E s \in CheckedChildren(i, "LocalTee") :
          LET f == script.functions[i] IN
          /\ LastDiag.span = s
          /\ Node(f, s).name \in DOMAIN context.global_vars
          /\ context.global_vars[Node(f, s).name].mutable
          /\ context.global_vars[Node(f, s).name].type_ = f.types[Append(s, 1)]

\* A local-tee to a stored local took the local's type.
C21_WitnessTyped ==
    \E i \in FunctionIds :
        /\ Completed("bodies", i)
        /\ \E s \in CheckedChildren(i, "LocalTee") :
              LET f == script.functions[i] IN
              /\ s \in DOMAIN f.types /\ f.types[s] = "F32"
              /\ Node(f, s).name \in DOMAIN context.global_vars

(***************************************************************************)
(* C22.  A block pushes a scope before its first statement and pops it     *)
(* after its trailing expression: a name bound by a let inside a block is  *)
(* not resolvable by any expression after the block, an outer binding      *)
(* shadowed inside the block is the one resolved again afterwards, and the *)
(* block's type is its trailing expression's type, or void when it has     *)
(* none.                                                                   *)
(***************************************************************************)
\* The variable reads the checker came to after the block at b had ended.
ReadsAfter(i, b) ==
    { v \in VariableReads(i) : SpanBefore(b, v) /\ ~IsPrefix(b, v) }

\* The lets of a name in the i-th function that are inside the block at b,
\* and those outside it that are checked before the node at v.
LetsInside(i, b, name) ==
    { l \in BodyNodes(i) :
        /\ Node(script.functions[i], l).kind = "Let"
        /\ Node(script.functions[i], l).name = name
        /\ IsPrefix(b, l) }

LetsOutsideBefore(i, b, name, v) ==
    { l \in BodyNodes(i) :
        /\ Node(script.functions[i], l).kind = "Let"
        /\ Node(script.functions[i], l).name = name
        /\ ~IsPrefix(b, l)
        /\ SpanBefore(l, v) }

C22_BlockScope ==
    \A i \in FunctionIds :
        Visited("bodies", i) =>
            LET f == script.functions[i] IN
            \A b \in CheckedChildren(i, "Block") :
                /\ b \in DOMAIN f.types
                /\ f.types[b] =
                      (IF Node(f, b).final_expression.kind = "NoExpr" THEN None
                       ELSE f.types[Append(b, Len(Node(f, b).statements) + 1)])
                /\ \A v \in ReadsAfter(i, b) :
                      LET name == Node(f, v).name IN
                      /\ v \in DOMAIN f.local_ids =>
                            ~IsPrefix(b, LocalAt(LocalsOf(i), f.local_ids[v]).span)
                      /\ ( /\ LetsInside(i, b, name) # {}
                           /\ LetsOutsideBefore(i, b, name, v) = {}
                           /\ \A k \in 1..Len(f.params) : f.params[k].name # name
                           /\ name \notin DOMAIN context.global_vars )
                         => /\ v \notin DOMAIN f.types
                            /\ Aborted /\ pc = "bodies" /\ idx = i
                            /\ LastDiag = Diag("Unknown variable", v,
                                               { DiagLabel(v, "Unknown variable", None, <<>>) })

\* A read after a block took the outer let's type, i32, the name having
\* been bound to an f32 local inside the block and read there.
C22_Witness ==
    \E i \in FunctionIds :
        /\ Completed("bodies", i)
        /\ LET f == script.functions[i] IN
           \E b \in CheckedChildren(i, "Block") : \E v \in ReadsAfter(i, b) :
               /\ LetsInside(i, b, Node(f, v).name) # {}
               /\ LetsOutsideBefore(i, b, Node(f, v).name, v) # {}
               /\ f.types[v] = "I32"
               /\ f.types[b] = "F32"
               /\ Len(b) > 3

\* A read after a block of a name bound only inside the block failed.
C22_WitnessUnbound ==
    /\ Aborted /\ LastDiag.msg = "Unknown variable"
    /\ \E i \in FunctionIds : \E b \in CheckedChildren(i, "Block") :
          \E v \in ReadsAfter(i, b) :
              /\ LastDiag.span = v
              /\ LetsInside(i, b, Node(script.functions[i], v).name) # {}


(***************************************************************************)
(* C23: grouping of binary operators by the parser.                        *)
(***************************************************************************)
\* The precedence layer of an operator, 1 the tightest, as the claim lists them.
OperatorLevel(op) ==
    CASE op \in {"Mul", "Div", "Rem"} -> 1
      [] op \in {"Add", "Sub"} -> 2
      [] op \in {"Eq", "Ne", "Lt", "Le", "Gt", "Ge"} -> 3
      [] op \in {"And", "Or", "Xor"} -> 4

OperatorText(op) ==
    CASE op = "Mul" -> <<"*">> [] op = "Div" -> <<"/">> [] op = "Rem" -> <<"%">>
      [] op = "Add" -> <<"+">> [] op = "Sub" -> <<"-">>
      [] op = "Eq" -> <<"=", "=">> [] op = "Ne" -> <<"!", "=">>
      [] op = "Lt" -> <<"<">> [] op = "Le" -> <<"<", "=">>
      [] op = "Gt" -> <<">">> [] op = "Ge" -> <<">", "=">>
      [] op = "And" -> <<"&">> [] op = "Or" -> <<"|">> [] op = "Xor" -> <<"^">>

\* The token texts an expression was built from, left to right.
RECURSIVE Yield(_)
Yield(e) ==
    IF e.kind = "BinOp" THEN Yield(e.left) \o <<OperatorText(e.op)>> \o Yield(e.right)
    ELSE <<e.text>>

RECURSIVE BlockYield(_, _)
BlockYield(statements, final) ==
    IF statements = <<>> THEN (IF final = NoExpr THEN <<>> ELSE Yield(final))
    ELSE Yield(Head(statements)) \o << <<";">> >> \o BlockYield(Tail(statements), final)

\* Every binary node of e groups to the left within its layer, holds only
\* tighter layers on its right, and spans from its left operand's start to
\* its right operand's end; every leaf is one token of the input.
RECURSIVE Grouped(_)
Grouped(e) ==
    IF e.kind = "BinOp"
    THEN /\ Grouped(e.left) /\ Grouped(e.right)
         /\ e.left.kind = "BinOp" => OperatorLevel(e.left.op) <= OperatorLevel(e.op)
         /\ e.right.kind = "BinOp" => OperatorLevel(e.right.op) < OperatorLevel(e.op)
         /\ e.span = <<e.left.span[1], e.right.span[2]>>
    ELSE \E k \in 1..Len(tokens) :
            /\ tokens[k].text = e.text /\ tokens[k].span = e.span
            /\ e.kind = (IF tokens[k].kind = "Int" THEN "I32Const" ELSE "Variable")

ParsedOk == stage = "done" /\ parse_returned = "Ok"

\* The tokens between the braces of the single function of the inputs.
BodyTokens == SubSeq(tokens, 6, Len(tokens) - 1)

ParsedBody == parsed[1].functions[1].body

\* The tree of left op1 right, and of a leaf, as the claim's examples write them.
ExampleNode(op, left, right) ==
    [kind |-> "BinOp", op |-> op, left |-> left, right |-> right,
     span |-> <<left.span[1], right.span[2]>>]

ExampleLeaf(name, k) == [kind |-> "Variable", text |-> <<name>>, span |-> <<k - 1, k>>]

\* The tokens of fn f(){a op1 b op2 c}, one offset to a token.
ExampleTokens(op1, op2) ==
    LET all == << <<"Fn", <<"f", "n">> >>, <<"Ident", <<"f">> >>, <<"Ctrl", <<"(">> >>,
                  <<"Ctrl", <<")">> >>, <<"Ctrl", <<"{">> >>,
                  <<"Ident", <<"a">> >>, <<"Op", op1>>, <<"Ident", <<"b">> >>,
                  <<"Op", op2>>, <<"Ident", <<"c">> >>, <<"Ctrl", <<"}">> >> >>
    IN [k \in 1..Len(all) |-> [kind |-> all[k][1], text |-> all[k][2], span |-> <<k - 1, k>>]]

\* C23: whenever parse succeeds, the body it built has the input's tokens
\* as its yield in order, every binary node groups left-associatively within
\* its layer and holds only tighter layers (product, then sum, then comparison,
\* then bitwise) on its right, with the span running from the left operand's
\* start to the right operand's end; a - b - c is (a - b) - c, a + b * c is
\* a + (b * c) and a & b == c is a & (b == c).
C23_OperatorGrouping ==
    /\ ParsedOk =>
         /\ Len(parsed) = 1 /\ Len(parsed[1].functions) = 1
         /\ BlockYield(ParsedBody.statements, ParsedBody.final_expression)
              = [k \in 1..Len(BodyTokens) |-> BodyTokens[k].text]
         /\ \A k \in 1..Len(ParsedBody.statements) : Grouped(ParsedBody.statements[k])
         /\ ParsedBody.final_expression # NoExpr => Grouped(ParsedBody.final_expression)
    /\ stage = "done" /\ tokens = ExampleTokens(<<"-">>, <<"-">>) =>
         /\ ParsedOk /\ ParsedBody.statements = <<>>
         /\ ParsedBody.final_expression
              = ExampleNode("Sub", ExampleNode("Sub", ExampleLeaf("a", 6), ExampleLeaf("b", 8)),
                            ExampleLeaf("c", 10))
    /\ stage = "done" /\ tokens = ExampleTokens(<<"+">>, <<"*">>) =>
         /\ ParsedOk /\ ParsedBody.statements = <<>>
         /\ ParsedBody.final_expression
              = ExampleNode("Add", ExampleLeaf("a", 6),
                            ExampleNode("Mul", ExampleLeaf("b", 8), ExampleLeaf("c", 10)))
    /\ stage = "done" /\ tokens = ExampleTokens(<<"&">>, <<"=", "=">>) =>
         /\ ParsedOk /\ ParsedBody.statements = <<>>
         /\ ParsedBody.final_expression
              = ExampleNode("And", ExampleLeaf("a", 6),
                            ExampleNode("Eq", ExampleLeaf("b", 8), ExampleLeaf("c", 10)))

\* a - b - c was parsed: a Sub node whose left operand is a Sub node.
C23_Witness ==
    /\ ParsedOk /\ tokens = ExampleTokens(<<"-">>, <<"-">>)
    /\ ParsedBody.final_expression.kind = "BinOp"
    /\ ParsedBody.final_expression.left.kind = "BinOp"

\* a + b * c and a source text lexed to a <= 1 were parsed with the tighter
\* layer on the right and the comparison as one operator.
C23_WitnessTighterRight ==
    /\ ParsedOk /\ tokens = ExampleTokens(<<"+">>, <<"*">>)
    /\ ParsedBody.final_expression.right.kind = "BinOp"

C23_WitnessFromSource ==
    /\ ParsedOk /\ source = <<"f", "n", " ", "f", "(", ")", "{", "a", "<", "=", "1", "}">>
    /\ ParsedBody.final_expression.kind = "BinOp"
    /\ ParsedBody.final_expression.op = "Le"


(***************************************************************************)
(* C24: lexical and syntactic errors of one call to parse.                 *)
(***************************************************************************)
\* What the lexer makes of the source of this run.
Lexed == lexer(source, 1, <<>>, <<>>)

\* The source has a character no token starts with, and, apart from it, a
\* syntax error: the tokens the lexer recovered are no script.
LexicalAndSyntaxError ==
    /\ Lexed.errors # <<>>
    /\ script_parser(Lexed.tokens, 1, <<>>).errors # <<>>

ReportedBy(which) == \E k \in 1..Len(reports) : reports[k].stage = which

\* C24, as stated: a call to parse on a source with both an invalid
\* character and an independent syntax error reports both the lexical and
\* the syntax error.
C24_AsStated ==
    stage = "done" /\ source # <<>> /\ LexicalAndSyntaxError =>
        ReportedBy("lexer") /\ ReportedBy("parser")

\* parse returned on such a source with the lexical errors as its only
\* reports: the script parser was never run.
C24_LexicalOnly ==
    /\ stage = "done" /\ LexicalAndSyntaxError
    /\ source = <<"f", "n", " ", "f", "(", ")", "{", "#", "a", "+", "}">>
    /\ parse_returned = "Err"
    /\ reports = Lexed.errors
    /\ ~ReportedBy("parser")
    /\ parsed = <<>> /\ tokens = <<>>


(***************************************************************************)
(* C25: the first failure inside a function body ends tc_script.           *)
(***************************************************************************)
\* The nodes of the i-th body the checker came to and left without a type.
Untyped(i) ==
    { s \in BodyNodes(i) : /\ CameTo(script.functions[i], s)
                           /\ s \notin DOMAIN script.functions[i].types }

Annotated(i) == DOMAIN script.functions[i].types \cup DOMAIN script.functions[i].local_ids

\* C25: a function whose body check was entered and failed (the body has no
\* type) is where tc_script returned Err: the nodes left without a type are
\* one path from the body down to the failing expression, no node the
\* checker had not come to by then is annotated, the function has no Locals
\* table and its stored locals no slot, no later function is annotated, no
\* start function was looked for and no data segment checked.
C25_BodyFailureEndsRun ==
    \A i \in FunctionIds :
        Visited("bodies", i) /\ BodySpan(i) \notin DOMAIN script.functions[i].types =>
            /\ Aborted /\ pc = "bodies" /\ idx = i
            /\ \A s, t \in Untyped(i) : IsPrefix(s, t) \/ IsPrefix(t, s)
            /\ \A s \in Annotated(i) : CameTo(script.functions[i], s)
            /\ script.functions[i].locals = DefaultLocals
            /\ \A k \in Stored(context.locals.locals) : context.locals.locals[k].index = <<0>>
            /\ \A j \in FunctionIds :
                  j > i => /\ Annotated(j) = {}
                           /\ script.functions[j].locals = DefaultLocals
            /\ start_function = <<>>
            /\ DiagsOf(StartInvalidMsg) = {}
            /\ DiagsOf("Start function already defined") = {}
            /\ \A k \in 1..Len(diags) : diags[k].span[1] # DataSpan(1)[1]

\* The first body failed with a node and a later function left unvisited.
C25_Witness ==
    /\ Aborted /\ pc = "bodies" /\ idx = 1
    /\ Len(script.functions) > 1
    /\ \E s \in BodyNodes(1) : ~CameTo(script.functions[1], s)

\* A body failed after a stored local was declared, before its last node.
C25_WitnessStoredLocal ==
    /\ Aborted /\ pc = "bodies"
    /\ Stored(context.locals.locals) # {}
    /\ \E s \in BodyNodes(idx) : ~CameTo(script.functions[idx], s)

\* A body failed in a script with a start function and a data segment.
C25_WitnessStartAndData ==
    /\ Aborted /\ pc = "bodies"
    /\ \E j \in FunctionIds : script.functions[j].start
    /\ script.data # <<>>


(***************************************************************************)
(* C26: the label stack and the scope stack across tc_expression.          *)
(***************************************************************************)
\* The functions whose body check ran to its end.
CheckedBodies == { i \in FunctionIds : Completed("bodies", i) }

\* The context the body of f is checked in, with the given label stack and
\* with extra empty scopes above the parameter scope.
CallContext(f, span, labels, extra) ==
    LET bound == BindParams([St EXCEPT !.context.local_vars = <<EmptyMap>>,
                                       !.context.locals = DefaultLocals], f.params, 1, span)
    IN WithTree([bound.context EXCEPT !.block_stack = labels,
                                      !.local_vars = @ \o extra,
                                      !.return_type = f.type_])

\* tc_expression on the node at span s of f, called with a label stack and
\* a scope stack, leaves both as deep as they were, and the labels as they were.
StacksKept(f, span, s, labels, extra) ==
    LET ctx0 == CallContext(f, span, labels, extra) IN
    /\ tc_expression(ctx0, Node(f, s), s).ok =>
          /\ tc_expression(ctx0, Node(f, s), s).ctx.block_stack = labels
          /\ Len(tc_expression(ctx0, Node(f, s), s).ctx.local_vars) = Len(ctx0.local_vars)

\* C26: a successful tc_expression call on any expression of a body, from
\* any label stack and scope depth, leaves the label stack as it was and
\* the scope stack as deep as it was; between two bodies, and after the
\* last, unless tc_script returned from inside a body, the label stack is
\* empty, the scope stack is the parameter scope of the function checked
\* last alone, and the arena is a fresh empty one.
C26_StacksBalanced ==
    /\ pc = "bodies" /\ returned = "Pending" =>
          \A s \in BodyNodes(idx) :
              \A labels \in {<<>>, <<"l">>, <<"m", "l">>} :
                  \A extra \in {<<>>, <<EmptyMap>>} :
                      StacksKept(script.functions[idx], FunctionSpan(idx), s, labels, extra)
    /\ ~(Aborted /\ pc = "bodies") =>
          /\ context.block_stack = <<>>
          /\ context.locals = DefaultLocals
          /\ \A i \in CheckedBodies :
                (\A j \in CheckedBodies : j <= i) =>
                    /\ Len(context.local_vars) = 1
                    /\ DOMAIN context.local_vars[1]
                         = { script.functions[i].params[k].name :
                               k \in BoundParams(script.functions[i]) }

\* A body with a loop or a labeled block was checked and the next body is
\* about to be: the label stack is empty again.
C26_Witness ==
    /\ pc = "bodies" /\ returned = "Pending" /\ idx = 2
    /\ \E s \in BodyNodes(1) : Node(script.functions[1], s).kind \in {"Loop", "LabelBlock"}
    /\ \E s \in BodyNodes(2) : Node(script.functions[2], s).kind \in {"Loop", "LabelBlock"}

\* The body of a function with a parameter, with a let in a nested block,
\* was checked: the scope stack is the parameter scope.
C26_WitnessScopes ==
    /\ returned = "Ok"
    /\ \E i \in CheckedBodies :
          /\ BoundParams(script.functions[i]) # {}
          /\ \E s \in BodyNodes(i) :
                /\ Len(s) > 4
                /\ Node(script.functions[i], s).kind = "Let"
                /\ s \in DOMAIN script.functions[i].types


(***************************************************************************)
(* C27: a let of a name the current scope already binds.                   *)
(***************************************************************************)
\* The lets of the i-th body, inside a block, that were checked successfully.
CheckedLets(i) ==
    LET f == script.functions[i] IN
    { s \in BodyNodes(i) : /\ Node(f, s).kind = "Let"
                           /\ s \in DOMAIN f.types
                           /\ EnclosingBlocks(f, s) # {} }

\* The lets of the same name bound in the scope of the let at s when the
\* checker comes to it.
EarlierLets(i, s) ==
    LET f == script.functions[i]
        b == CHOOSE c \in EnclosingBlocks(f, s) : \A d \in EnclosingBlocks(f, s) : Len(d) <= Len(c)
    IN ScopeLets(i, b, Node(f, s).name, s)

\* The let that bound the name last in that scope.
LatestEarlierLet(i, s) ==
    CHOOSE m \in EarlierLets(i, s) : \A n \in EarlierLets(i, s) : n = m \/ SpanBefore(n, m)

\* The let at s finds its name bound in its scope to a record of its type
\* and storage mode: that of the let that bound the name last.
Rebinds(i, s) ==
    LET f == script.functions[i] IN
    /\ EarlierLets(i, s) # {}
    /\ LetLocalType(f, LatestEarlierLet(i, s)) = LetLocalType(f, s)
    /\ (Node(f, LatestEarlierLet(i, s)).let_type = "Inline") = (Node(f, s).let_type = "Inline")

\* C27: no let is reported as a duplicate; a checked let whose name the
\* current scope already binds to a record of its type and storage mode has
\* that record's id and adds no record; any other checked let has a record of
\* its own, appended after the records of all lets checked before it, that
\* still has the let's span, name, type and storage mode.
C27_LetRebinding ==
    /\ \A k \in DiagsOf("Variable already defined") : Len(diags[k].span) = 2
    /\ \A i \in FunctionIds :
          Visited("bodies", i) =>
              LET f == script.functions[i]
                  locals == LocalsOf(i)
                  created == { locals.locals[k].span : k \in 1..Len(locals.locals) }
              IN /\ \A s \in CheckedLets(i) :
                        IF Rebinds(i, s)
                        THEN /\ f.local_ids[s] = f.local_ids[LatestEarlierLet(i, s)]
                             /\ s \notin created
                        ELSE /\ f.local_ids[s] >= Len(locals.params)
                             /\ f.local_ids[s] < Len(locals.params) + Len(locals.locals)
                             /\ LET local == locals.locals[f.local_ids[s] - Len(locals.params) + 1]
                                IN /\ local.span = s
                                   /\ local.name = Node(f, s).name
                                   /\ local.type_ = LetLocalType(f, s)
                                   /\ (local.index = <<>>) = (Node(f, s).let_type = "Inline")
                             /\ \A t \in CheckedLets(i) :
                                   SpanBefore(t, s) => f.local_ids[t] < f.local_ids[s]
                 /\ \A k \in 1..Len(locals.locals) :
                        /\ locals.locals[k].span \in CheckedLets(i)
                        /\ ~Rebinds(i, locals.locals[k].span)
                        /\ f.local_ids[locals.locals[k].span] = Len(locals.params) + k - 1

\* A let reused the record of an earlier let of its name, type and storage
\* mode in the same block.
C27_Witness ==
    \E i \in FunctionIds :
        /\ Completed("bodies", i)
        /\ \E s \in CheckedLets(i) :
              /\ Rebinds(i, s)
              /\ script.functions[i].local_ids[s]
                   = script.functions[i].local_ids[LatestEarlierLet(i, s)]

\* A let of a name bound in the same block with another type or storage
\* mode got a new record, the earlier record still in the arena.
C27_WitnessNewRecord ==
    \E i \in FunctionIds :
        /\ Completed("bodies", i)
        /\ \E s \in CheckedLets(i) :
              /\ EarlierLets(i, s) # {} /\ ~Rebinds(i, s)
              /\ script.functions[i].local_ids[s]
                   > script.functions[i].local_ids[LatestEarlierLet(i, s)]


(***************************************************************************)
(* C28: the condition of if, of select and of branch_if.                   *)
(***************************************************************************)
\* The report of a condition at span cond that is not an i32, the expected
\* type shown at span at.
ConditionMismatch(at, cond, type_) ==
    Diag("Type mismatch", cond, { DiagLabel(at, "Expected type", "I32", <<>>),
                                  DiagLabel(cond, "but found type", type_, <<>>) })

\* C28: an if whose children were checked and whose branches agree (or that
\* has no else) is accepted whatever the type of its condition, void
\* included; a select or branch_if whose condition is not an i32 is rejected
\* with a type mismatch expecting i32, and one whose condition is an i32 is
\* not rejected for its condition.
C28_Conditions ==
    \A i \in FunctionIds :
        Visited("bodies", i) =>
            LET f == script.functions[i] IN
            /\ \A s \in CheckedChildren(i, "If") :
                  (\/ Node(f, s).if_false.kind = "NoExpr"
                   \/ f.types[Append(s, 2)] = f.types[Append(s, 3)]) =>
                      /\ s \in DOMAIN f.types
                      /\ \A k \in 1..Len(diags) : diags[k].span # Append(s, 1)
            /\ \A s \in CheckedChildren(i, "Select") :
                  IF f.types[Append(s, 1)] # "I32"
                  THEN /\ s \notin DOMAIN f.types
                       /\ Aborted /\ pc = "bodies" /\ idx = i
                       /\ LastDiag = ConditionMismatch(Append(s, 1), Append(s, 1),
                                                       f.types[Append(s, 1)])
                  ELSE s \in DOMAIN f.types \/ LastDiag.span # Append(s, 1)
            /\ \A s \in CheckedChildren(i, "BranchIf") :
                  IF f.types[Append(s, 1)] # "I32"
                  THEN /\ s \notin DOMAIN f.types
                       /\ Aborted /\ pc = "bodies" /\ idx = i
                       /\ LastDiag = ConditionMismatch(s, Append(s, 1), f.types[Append(s, 1)])
                  ELSE s \in DOMAIN f.types \/ LastDiag = SimpleDiag("Label not found", s)

\* An if with a void condition was accepted.
C28_Witness ==
    \E i \in FunctionIds :
        /\ Completed("bodies", i)
        /\ \E s \in CheckedChildren(i, "If") :
              /\ script.functions[i].types[Append(s, 1)] = None
              /\ s \in DOMAIN script.functions[i].types

\* An if with an f64 condition and i32 branches was typed i32.
C28_WitnessFloatCondition ==
    \E i \in FunctionIds :
        /\ Completed("bodies", i)
        /\ \E s \in CheckedChildren(i, "If") :
              /\ script.functions[i].types[Append(s, 1)] = "F64"
              /\ Node(script.functions[i], s).if_false.kind # "NoExpr"
              /\ script.functions[i].types[s] = "I32"

\* A select with an f32 condition and branches of one type was rejected.
C28_WitnessSelect ==
    \E i \in FunctionIds : \E s \in CheckedChildren(i, "Select") :
        /\ Aborted
        /\ script.functions[i].types[Append(s, 1)] = "F32"
        /\ script.functions[i].types[Append(s, 2)] = script.functions[i].types[Append(s, 3)]
        /\ LastDiag.msg = "Type mismatch"

\* A branch_if to an enclosing loop with a void condition was rejected.
C28_WitnessBranchIf ==
    \E i \in FunctionIds : \E s \in CheckedChildren(i, "BranchIf") :
        /\ Aborted
        /\ script.functions[i].types[Append(s, 1)] = None
        /\ Node(script.functions[i], s).label \in EnclosingLabels(script.functions[i], s)
        /\ LastDiag.msg = "Type mismatch"

\* A branch_if with an i32 condition was accepted.
C28_WitnessBranchIfAccepted ==
    \E i \in FunctionIds : \E s \in CheckedChildren(i, "BranchIf") :
        /\ script.functions[i].types[Append(s, 1)] = "I32"
        /\ s \in DOMAIN script.functions[i].types


(***************************************************************************)
(* C29: a registered function hides the intrinsics of its name.            *)
(***************************************************************************)
\* The calls of the i-th function, arguments checked, to a name the
\* function table has, and to a name it has not.
CallsToRegistered(i) ==
    { s \in CallLookups(i) : Node(script.functions[i], s).name \in DOMAIN context.functions }

CallsToUnregistered(i) == CallLookups(i) \ CallsToRegistered(i)

\* C29: a call to a name in the function table is typed with that entry's
\* return type when the argument types are the entry's parameter types, and
\* otherwise fails with 'No matching function found' showing that one
\* signature, also when an intrinsic of the name takes the arguments; a call
\* to a name the table does not have is typed by the intrinsic overload that
\* takes the arguments, if there is one.
C29_RegisteredHidesIntrinsic ==
    \A i \in FunctionIds :
        Visited("bodies", i) =>
            LET f == script.functions[i] IN
            /\ \A s \in CallsToRegistered(i) :
                  LET entry == context.functions[Node(f, s).name] IN
                  IF ArgumentTypes(f, s) = entry.params
                  THEN s \in DOMAIN f.types /\ f.types[s] = entry.type_
                  ELSE /\ s \notin DOMAIN f.types
                       /\ Aborted /\ pc = "bodies" /\ idx = i
                       /\ LastDiag = Diag("No matching function found", s,
                                          { DiagLabel(s, "Found", entry.type_, entry.params) })
            /\ \A s \in CallsToUnregistered(i) :
                  ArgumentTypes(f, s) \in DOMAIN find_types(Node(f, s).name) =>
                      /\ s \in DOMAIN f.types
                      /\ f.types[s] = find_types(Node(f, s).name)[ArgumentTypes(f, s)]

\* A call to a user function sqrt(i32) with an f32 argument, which the
\* intrinsic sqrt takes, failed.
C29_Witness ==
    \E i \in FunctionIds : \E s \in CallsToRegistered(i) :
        /\ Aborted /\ pc = "bodies" /\ idx = i
        /\ Node(script.functions[i], s).name = "sqrt"
        /\ context.functions["sqrt"].span[1] = FunctionSpan(1)[1]
        /\ ArgumentTypes(script.functions[i], s) \in DOMAIN find_types("sqrt")
        /\ LastDiag.msg = "No matching function found"

\* A call to an imported function min(i32, i32) with two f32 arguments,
\* which the intrinsic min takes, failed.
C29_WitnessImport ==
    \E i \in FunctionIds : \E s \in CallsToRegistered(i) :
        /\ Aborted /\ pc = "bodies" /\ idx = i
        /\ Node(script.functions[i], s).name = "min"
        /\ context.functions["min"].span[1] = ImportSpan(1)[1]
        /\ ArgumentTypes(script.functions[i], s) \in DOMAIN find_types("min")
        /\ LastDiag.msg = "No matching function found"

\* A call to the user function sqrt with its own parameter types was typed
\* with its return type.
C29_WitnessResolved ==
    \E i \in FunctionIds : \E s \in CallsToRegistered(i) :
        /\ Node(script.functions[i], s).name = "sqrt"
        /\ s \in DOMAIN script.functions[i].types
        /\ script.functions[i].types[s] = "I64"

\* A call sqrt(f32) in a script without a function sqrt was typed by the
\* intrinsic.
C29_WitnessIntrinsic ==
    \E i \in FunctionIds : \E s \in CallsToUnregistered(i) :
        /\ Node(script.functions[i], s).name = "sqrt"
        /\ s \in DOMAIN script.functions[i].types
        /\ script.functions[i].types[s] = "F32"

====
